---- MODULE Spec2Model ----
(***************************************************************************)
(* State-machine model of the agentic-orchestrator daemons of spike-lab.   *)
(*                                                                         *)
(* Part I models crates/daemon/src/service.rs (OrchestratorService): the   *)
(* request handlers demo_enqueue, claim_job and complete_job and the       *)
(* periodic reconcile.  Every handler is an async fn whose database        *)
(* queries are suspension points, so a handler is modelled as a process    *)
(* with a program counter and one action per database statement; handlers  *)
(* of different requests interleave between statements.  Only claim_job    *)
(* is serialised (claim_lock).  Agents follow crates/agent: one lease at a *)
(* time, Complete sent once for it.                                        *)
(*                                                                         *)
(* Part II models crates/orchestrator-daemon/src/state.rs: claim_next_job  *)
(* and complete_job, which any caller may run concurrently.                *)
(*                                                                         *)
(* A behaviour runs one of the two daemons (variable impl).                *)
(***************************************************************************)
EXTENDS Integers, Sequences, FiniteSets, TLC

\* ---------------------------------------------------------------- bounds
MaxTime == 4        \* the clock runs over 0..MaxTime
LeaseMs == 1        \* --lease-ms, in clock units of the model

Agents == {"a1", "a2"}
NONE == "NONE"      \* an absent string field (SurrealDB NONE / JSON null)
NoMs == -1          \* an absent timestamp
NoToken == 0        \* an absent lease token
NoId == 0           \* an absent record id

Min(a, b) == IF a < b THEN a ELSE b

\* ------------------------------------------------------- safety validator
\* A path string is modelled by what std::path::Path sees of it: whether it
\* is absolute and its components.
Path(abs, comps) == [abs |-> abs, comps |-> comps]
EmptyPath == Path(FALSE, <<>>)
NoCwd == [abs |-> FALSE, comps |-> <<"<none>">>]
\* An argument string: a flag (starts with '-') or a path operand.
Flag == [flag |-> TRUE, abs |-> FALSE, comps |-> <<>>]
Operand(p) == [flag |-> FALSE, abs |-> p.abs, comps |-> p.comps]

to_lowercase(s) ==
    CASE s = "BASH" -> "bash"
      [] s = "RM" -> "rm"
      [] OTHER -> s

allow == [decision |-> "allow", warnings |-> <<>>, violations |-> <<>>]

warn(out, msg) ==
    [decision |-> IF out.decision # "block" THEN "warn" ELSE out.decision,
     warnings |-> Append(out.warnings, msg),
     violations |-> out.violations]

block(out, msg) ==
    [decision |-> "block",
     warnings |-> out.warnings,
     violations |-> Append(out.violations, msg)]

out_merge(base, other) ==
    [decision |-> IF base.decision = "block" \/ other.decision = "block" THEN "block"
                  ELSE IF base.decision = "warn" \/ other.decision = "warn" THEN "warn"
                  ELSE base.decision,
     warnings |-> base.warnings \o other.warnings,
     violations |-> base.violations \o other.violations]

is_safe_rel_path_not_absolute(p) == ~p.abs

is_safe_rel_path(p) ==
    /\ ~p.abs
    /\ \A i \in 1..Len(p.comps) : p.comps[i] # ".." /\ p.comps[i] # "/"

non_flag_args(args) == SelectSeq(args, LAMBDA a : ~a.flag)

ShellPrograms == {"sh", "bash", "zsh", "fish", "cmd", "cmd.exe", "powershell", "pwsh"}

\* The tail of validate_command: the note on a workdir that is not absolute.
workdir_note(blk, out) ==
    IF ~blk.workdir.abs THEN warn(out, "workdir not absolute") ELSE out

validate_command(blk, cmd) ==
    LET prog == to_lowercase(cmd.program)
        paths == non_flag_args(cmd.args)
        unsafe == \E i \in 1..Len(paths) : ~is_safe_rel_path(paths[i])
    IN  IF prog \in ShellPrograms /\ ~blk.allow_shell
          THEN block(allow, "shell entrypoint is blocked")
        ELSE IF cmd.cwd # NoCwd /\ ~is_safe_rel_path(cmd.cwd)
          THEN block(allow, "cwd is not a safe relative path")
        ELSE IF prog \in {"rm", "rmdir", "unlink"}
          THEN LET o1 == IF Len(paths) = 0 THEN warn(allow, "no explicit paths") ELSE allow
               IN  IF unsafe THEN block(o1, "path is not allowed")
                   ELSE workdir_note(blk, warn(o1, "destructive tool"))
        ELSE IF prog \in {"mv", "cp", "chmod", "chown", "ln"}
          THEN IF unsafe THEN block(allow, "arg is not a safe relative path")
               ELSE workdir_note(blk, warn(allow, "tool is audited"))
        ELSE IF prog \in {"dd", "mkfs", "shutdown", "reboot"}
          THEN workdir_note(blk, block(allow, "blocked by policy"))
        ELSE workdir_note(blk, allow)

RECURSIVE validate_commands_without_break(_, _, _)
validate_commands_without_break(blk, i, out) ==
    IF i > Len(blk.commands) THEN out
    ELSE validate_commands_without_break(blk, i + 1,
                                         out_merge(out, validate_command(blk, blk.commands[i])))

RECURSIVE validate_commands(_, _, _)
validate_commands(blk, i, out) ==
    IF i > Len(blk.commands) THEN out
    ELSE LET o == out_merge(out, validate_command(blk, blk.commands[i]))
         IN  IF o.decision = "block" THEN o ELSE validate_commands(blk, i + 1, o)

validate_exec_block(blk) ==
    IF blk.workdir = EmptyPath THEN block(allow, "workdir must not be empty")
    ELSE IF Len(blk.commands) = 0 THEN block(allow, "exec block must contain at least one command")
    ELSE validate_commands(blk, 1, allow)

\* ------------------------------------------------------------ the workflow
\* demo_workflow(project_path): prep -> build -> test, every stage an exec
\* block of echo commands in workdir = project_path.
ProjectPaths == {EmptyPath, Path(FALSE, <<"proj">>), Path(TRUE, <<"proj">>)}

StageIds == <<"prep", "build", "test">>

echo(text) == [program |-> "echo", args |-> <<Operand(Path(FALSE, <<text>>))>>, cwd |-> NoCwd]

demo_workflow(project_path) ==
    [name |-> "demo",
     stages |-> [s \in {"prep", "build", "test"} |->
                   [workdir |-> project_path,
                    allow_shell |-> FALSE,
                    commands |-> IF s = "build"
                                   THEN <<echo("build: compiling"), echo("build: done")>>
                                   ELSE <<echo(s)>>]],
     edges |-> <<[from |-> "prep", to |-> "build"], [from |-> "build", to |-> "test"]>>]

\* ------------------------------------------------------------------ state
VARIABLES
    impl,         \* which daemon runs: "service" (daemon/src/service.rs) or "state" (orchestrator-daemon/src/state.rs)
    sc,           \* state.rs: agent -> its claim_next_job call in flight
    now,          \* now_ms()
    run,          \* the run record (status "none" before demo_enqueue)
    stage_run,    \* stage_id -> stage_run record (empty before materialize_run)
    requires,     \* the requires edge table: records [in, out]
    job,          \* sequence of job records, in creation order; a job's id is its index
    artifact,     \* sequence of artifact records; an artifact's id is its index
    next_token,   \* the next value Uuid::new_v4() returns
    h,            \* request handlers in flight: demo_enqueue ("enq") and one complete_job per agent
    clm,          \* the claim_job call inside claim_lock
    rcn,          \* the reconciler loop
    held,         \* agent -> the lease <<job, token>> it is working on, <<>> when it has none
    call          \* a library function under test: its name, its argument and what it returned

vars == <<impl, sc, now, run, stage_run, requires, job, artifact, next_token, h, clm, rcn, held, call>>

\* No library call is being looked at.
NoCall == [fn |-> NONE, arg |-> <<>>, done |-> FALSE, ret |-> <<>>]

Procs == Agents \cup {"enq"}

IdleH == [pc |-> "idle", job |-> NoId, token |-> NoToken, res |-> NONE, snap |-> NONE, sr |-> NONE, art |-> NoId,
          todo |-> <<>>, queue |-> <<>>, seen |-> {}, outs |-> <<>>]
IdleClaim == [pc |-> "idle", agent |-> NONE, cands |-> <<>>, job |-> NoId,
              token |-> NoToken, now |-> NoMs]
IdleReconcile == [pc |-> "idle", now |-> NoMs]

IdleStateClaim == [pc |-> "idle", cands |-> <<>>, job |-> NoId, token |-> NoToken, now |-> NoMs]

\* OrchestratorService::new: an empty database.
ServiceInit ==
    /\ call = NoCall
    /\ impl = "service"
    /\ sc = [a \in Agents |-> IdleStateClaim]
    /\ now = 0
    /\ run = [status |-> "none", owner_agent |-> NONE, owner_lease_expires_at_ms |-> NoMs]
    /\ stage_run = <<>>
    /\ requires = {}
    /\ job = <<>>
    /\ artifact = <<>>
    /\ next_token = 1
    /\ h = [p \in Procs |-> IdleH]
    /\ clm = IdleClaim
    /\ rcn = IdleReconcile
    /\ held = [a \in Agents |-> <<>>]

Tick ==
    /\ now < MaxTime
    /\ now' = now + 1
    /\ UNCHANGED <<call, impl, sc, run, stage_run, requires, job, artifact, next_token, h, clm, rcn, held>>


\* ------------------------------------------------------- database queries
\* RELATE a->requires->b stores an edge record with in = a and out = b.
Relate(a, b) == [in |-> a, out |-> b]

\* validation: NONE until enqueue_job_for_stage_run records an outcome.
NoValidation == [decision |-> NONE, warnings |-> <<>>, violations |-> <<>>]

NewStageRun(config) ==
    [status |-> "pending", config |-> config, validation |-> NoValidation, artifact_id |-> NoId]

NewJob(sr) ==
    [stage_run_id |-> sr, status |-> "queued", created_at_ms |-> now,
     lease_owner |-> NONE, lease_token |-> NoToken, lease_expires_at_ms |-> NoMs,
     artifact_id |-> NoId, result |-> NONE]

\* The stage ids of a set, as a sequence in creation order (the table scan order).
InScanOrder(S) == SelectSeq(StageIds, LAMBDA s : s \in S)

\* SELECT count() FROM stage_run WHERE id IN (SELECT VALUE in FROM requires WHERE out = $sr)
\*   AND status != 'succeeded'
unmet_deps(sr) ==
    Cardinality({s \in DOMAIN stage_run :
                    /\ s \in {e.in : e \in {x \in requires : x.out = sr}}
                    /\ stage_run[s].status # "succeeded"})

\* SELECT * FROM stage_run WHERE id IN (SELECT VALUE out FROM requires WHERE in = $sr)
downstream_of(sr) ==
    {s \in DOMAIN stage_run : s \in {e.out : e \in {x \in requires : x.in = sr}}}

\* SELECT count() FROM job WHERE stage_run_id = $sr AND (status = 'queued' OR status = 'running')
active_jobs(sr) ==
    Cardinality({j \in DOMAIN job : job[j].stage_run_id = sr
                                    /\ job[j].status \in {"queued", "running"}})

\* ----------------------------------------------------------- demo_enqueue
\* Creates the intent and the run, materialize_run, and the SELECT of
\* enqueue_runnable_stages.  No job exists before the loop below creates one, so
\* no other handler can act on the database between these statements.
materialize_run(wf) ==
    /\ stage_run' = [s \in DOMAIN wf.stages |-> NewStageRun(wf.stages[s])]
    /\ requires' = {Relate(wf.edges[i].to, wf.edges[i].from) : i \in
                      {k \in 1..Len(wf.edges) : wf.edges[k].from \in DOMAIN wf.stages
                                                /\ wf.edges[k].to \in DOMAIN wf.stages}}

demo_enqueue(project_path) ==
    /\ impl = "service"
    /\ h["enq"].pc = "idle"
    /\ run.status = "none"
    /\ run' = [status |-> "running", owner_agent |-> NONE, owner_lease_expires_at_ms |-> NoMs]
    /\ materialize_run(demo_workflow(project_path))
    /\ h' = [h EXCEPT !["enq"] = [IdleH EXCEPT !.pc = "promote_unmet",
                                              !.todo = InScanOrder({"prep", "build", "test"})]]
    /\ UNCHANGED <<call, impl, sc, now, job, artifact, next_token, clm, rcn, held>>

\* ------------------------------- enqueue_runnable_stages / enqueue_downstream
\* Both loop over a snapshot of pending stage runs (h[p].todo): unmet_deps, then
\* enqueue_job_for_stage_run (the double-enqueue check, the validation, and the
\* creation of the job).  demo_enqueue returns after the loop; complete_job goes
\* on to update_run_status.
AfterLoop(p, rest) ==
    IF rest # <<>> THEN "promote_unmet"
    ELSE IF p = "enq" THEN "done" ELSE "run_fail_count"

LoopNext(p) ==
    [h EXCEPT ![p].todo = Tail(@), ![p].pc = AfterLoop(p, Tail(h[p].todo))]

promote_unmet(p) ==
    /\ h[p].pc = "promote_unmet"
    /\ h' = IF unmet_deps(Head(h[p].todo)) = 0
              THEN [h EXCEPT ![p].pc = "promote_check"]
              ELSE LoopNext(p)
    /\ UNCHANGED <<call, impl, sc, now, run, stage_run, requires, job, artifact, next_token, clm, rcn, held>>

enqueue_job_check(p) ==
    /\ h[p].pc = "promote_check"
    /\ h' = IF active_jobs(Head(h[p].todo)) > 0
              THEN LoopNext(p)
              ELSE [h EXCEPT ![p].pc = "promote_create"]
    /\ UNCHANGED <<call, impl, sc, now, run, stage_run, requires, job, artifact, next_token, clm, rcn, held>>

\* A promotion that records the Block and creates the job all the same.
enqueue_job_create_despite_block(p) ==
    /\ h[p].pc = "promote_create"
    /\ LET sr == Head(h[p].todo)
           outcome == validate_exec_block(stage_run[sr].config)
       IN  /\ stage_run' = IF outcome.decision = "block"
                              THEN [stage_run EXCEPT ![sr].status = "needs_human",
                                                     ![sr].validation = outcome]
                              ELSE [stage_run EXCEPT ![sr].validation = outcome]
           /\ job' = Append(job, NewJob(sr))
    /\ h' = LoopNext(p)
    /\ UNCHANGED <<call, impl, sc, now, run, requires, artifact, next_token, clm, rcn, held>>

enqueue_job_create(p) ==
    /\ h[p].pc = "promote_create"
    /\ LET sr == Head(h[p].todo)
           outcome == validate_exec_block(stage_run[sr].config)
       IN  IF outcome.decision = "block"
             THEN /\ stage_run' = [stage_run EXCEPT ![sr].status = "needs_human",
                                                    ![sr].validation = outcome]
                  /\ job' = job
             ELSE /\ stage_run' = IF outcome.decision = "warn"
                                    THEN [stage_run EXCEPT ![sr].validation = outcome]
                                    ELSE stage_run
                  /\ job' = Append(job, NewJob(sr))
    /\ h' = LoopNext(p)
    /\ UNCHANGED <<call, impl, sc, now, run, requires, artifact, next_token, clm, rcn, held>>

\* ------------------------------------------------------------ complete_job
ResultStatuses == {"succeeded", "failed"}

job_status_str(st) == IF st = "succeeded" THEN "succeeded" ELSE "failed"

owner_ok(j, agent_id) == job[j].lease_owner # NONE /\ job[j].lease_owner = agent_id
token_ok(j, lease_token) == job[j].lease_token # NoToken /\ job[j].lease_token = lease_token

\* A handler that checks the lease before it looks at the job's status.
complete_check_lease_first(agent_id, j, lease_token) ==
    IF j \notin DOMAIN job THEN "job not found"
    ELSE IF ~owner_ok(j, agent_id) \/ ~token_ok(j, lease_token) THEN "lease mismatch"
    ELSE IF job[j].status \in {"succeeded", "failed"} THEN "already completed"
    ELSE ""

\* What the handler answers right after fetching the job, "" when it goes on.
complete_check(agent_id, j, lease_token) ==
    IF j \notin DOMAIN job THEN "job not found"
    ELSE IF job[j].status \in {"succeeded", "failed"} THEN "already completed"
    ELSE IF ~owner_ok(j, agent_id) \/ ~token_ok(j, lease_token) THEN "lease mismatch"
    ELSE ""

\* The agent sends CompleteRequest {agent_id, job_id, lease_token, result} for the
\* lease it holds and waits for the answer; the handler fetches the job and
\* answers at once unless the lease check passes.
complete_fetch(a, st) ==
    /\ impl = "service"
    /\ h[a].pc = "idle"
    /\ held[a] # <<>>
    /\ LET j == held[a][1]
           t == held[a][2]
       IN  h' = IF complete_check(a, j, t) # ""
                  THEN h
                  ELSE [h EXCEPT ![a] = [IdleH EXCEPT !.pc = "update_job", !.job = j, !.token = t,
                                                      !.res = st, !.sr = job[j].stage_run_id]]
    /\ held' = [held EXCEPT ![a] = <<>>]
    /\ UNCHANGED <<call, impl, sc, now, run, stage_run, requires, job, artifact, next_token, clm, rcn>>

\* The agent process stops (a crash, --once, a transport error) and forgets its lease.
agent_stop(a) ==
    /\ impl = "service"
    /\ held[a] # <<>>
    /\ held' = [held EXCEPT ![a] = <<>>]
    /\ UNCHANGED <<call, impl, sc, now, run, stage_run, requires, job, artifact, next_token, h, clm, rcn>>

\* CREATE artifact, then UPDATE $job (no WHERE clause).  Nothing reads the
\* artifact table, so the two statements are one step.
complete_update_job(a) ==
    /\ h[a].pc = "update_job"
    /\ artifact' = Append(artifact, [stage_run_id |-> h[a].sr])
    /\ job' = [job EXCEPT ![h[a].job] =
                 [@ EXCEPT !.status = job_status_str(h[a].res),
                           !.artifact_id = Len(artifact) + 1,
                           !.result = h[a].res,
                           !.lease_owner = NONE,
                           !.lease_token = NoToken,
                           !.lease_expires_at_ms = NoMs]]
    /\ h' = [h EXCEPT ![a].pc = "update_stage", ![a].art = Len(artifact) + 1]
    /\ UNCHANGED <<call, impl, sc, now, run, stage_run, requires, next_token, clm, rcn, held>>

SkipNext(queue, outs) ==
    IF outs # <<>> THEN "skip_update"
    ELSE IF queue # <<>> THEN "skip_pop" ELSE "run_fail_count"

\* UPDATE $sr SET status = $status (no WHERE clause), then the choice of fan-out.
complete_update_stage(a) ==
    /\ h[a].pc = "update_stage"
    /\ stage_run' = [stage_run EXCEPT ![h[a].sr].status = job_status_str(h[a].res),
                                      ![h[a].sr].artifact_id = h[a].art]
    /\ h' = IF job_status_str(h[a].res) = "succeeded"
              THEN [h EXCEPT ![a].pc = "downstream_select"]
              ELSE [h EXCEPT ![a].pc = "skip_pop", ![a].queue = <<h[a].sr>>,
                             ![a].seen = {h[a].sr}]
    /\ UNCHANGED <<call, impl, sc, now, run, requires, job, artifact, next_token, clm, rcn, held>>

\* enqueue_downstream: the SELECT of the dependents; those not pending in the
\* snapshot are skipped by the loop.
enqueue_downstream(a) ==
    /\ h[a].pc = "downstream_select"
    /\ LET deps == InScanOrder({s \in downstream_of(h[a].sr) : stage_run[s].status = "pending"})
       IN  h' = [h EXCEPT ![a].todo = deps,
                          ![a].pc = IF deps = <<>> THEN "run_fail_count" ELSE "promote_unmet"]
    /\ UNCHANGED <<call, impl, sc, now, run, stage_run, requires, job, artifact, next_token, clm, rcn, held>>

\* skip_downstream: pop the BFS queue and SELECT VALUE out FROM requires WHERE in = $cur.
skip_pop(a) ==
    /\ h[a].pc = "skip_pop"
    /\ LET cur == Head(h[a].queue)
           outs == InScanOrder({e.out : e \in {x \in requires : x.in = cur}})
       IN  h' = [h EXCEPT ![a].queue = Tail(@), ![a].outs = outs,
                          ![a].pc = SkipNext(Tail(h[a].queue), outs)]
    /\ UNCHANGED <<call, impl, sc, now, run, stage_run, requires, job, artifact, next_token, clm, rcn, held>>

\* skip_downstream: one dependent: UPDATE $sr SET status = 'skipped' WHERE status = 'pending'.
skip_update(a) ==
    /\ h[a].pc = "skip_update"
    /\ LET dep == Head(h[a].outs)
           rest == Tail(h[a].outs)
       IN  IF dep \in h[a].seen
             THEN /\ stage_run' = stage_run
                  /\ h' = [h EXCEPT ![a].outs = rest, ![a].pc = SkipNext(h[a].queue, rest)]
             ELSE /\ stage_run' = IF stage_run[dep].status = "pending"
                                    THEN [stage_run EXCEPT ![dep].status = "skipped"]
                                    ELSE stage_run
                  /\ h' = [h EXCEPT ![a].outs = rest, ![a].seen = @ \cup {dep},
                                    ![a].queue = Append(@, dep),
                                    ![a].pc = SkipNext(Append(h[a].queue, dep), rest)]
    /\ UNCHANGED <<call, impl, sc, now, run, requires, job, artifact, next_token, clm, rcn, held>>

\* update_run_status, then Ok(CompleteResponse { ok: true, message: None }).
Finish(a) == h' = [h EXCEPT ![a] = IdleH]

run_fail_count(a) ==
    /\ h[a].pc = "run_fail_count"
    /\ LET fail_count == Cardinality({s \in DOMAIN stage_run :
                                         stage_run[s].status \in {"failed", "needs_human"}})
       IN  h' = [h EXCEPT ![a].pc = IF fail_count > 0 THEN "run_set_failed" ELSE "run_remaining"]
    /\ UNCHANGED <<call, impl, sc, now, run, stage_run, requires, job, artifact, next_token, clm, rcn, held>>

run_set_failed(a) ==
    /\ h[a].pc = "run_set_failed"
    /\ run' = [status |-> "failed", owner_agent |-> NONE, owner_lease_expires_at_ms |-> NoMs]
    /\ Finish(a)
    /\ UNCHANGED <<call, impl, sc, now, stage_run, requires, job, artifact, next_token, clm, rcn, held>>

run_remaining(a) ==
    /\ h[a].pc = "run_remaining"
    /\ LET remaining == Cardinality({s \in DOMAIN stage_run :
                                        stage_run[s].status \in {"pending", "running"}})
       IN  IF remaining = 0
             THEN h' = [h EXCEPT ![a].pc = "run_set_succeeded"]
             ELSE Finish(a)
    /\ UNCHANGED <<call, impl, sc, now, run, stage_run, requires, job, artifact, next_token, clm, rcn, held>>

run_set_succeeded(a) ==
    /\ h[a].pc = "run_set_succeeded"
    /\ run' = [status |-> "succeeded", owner_agent |-> NONE, owner_lease_expires_at_ms |-> NoMs]
    /\ Finish(a)
    /\ UNCHANGED <<call, impl, sc, now, stage_run, requires, job, artifact, next_token, clm, rcn, held>>

\* --------------------------------------------------------------- claim_job
ClaimLimit == 10

\* SELECT * FROM job WHERE status = 'queued' ORDER BY created_at_ms ASC LIMIT 10:
\* the orders the statement may return (jobs created in the same millisecond
\* come in any order).
queued_by_age ==
    LET Q == {j \in DOMAIN job : job[j].status = "queued"}
        n == Cardinality(Q)
    IN  {SubSeq(s, 1, Min(ClaimLimit, n)) : s \in
           {f \in [1..n -> Q] :
               \A i, k \in 1..n : i < k =>
                   /\ f[i] # f[k]
                   /\ job[f[i]].created_at_ms <= job[f[k]].created_at_ms}}

\* A generator that hands out the previous token again.
reused_uuid == IF next_token > 1 THEN next_token - 1 ELSE next_token

fresh_uuid == next_token

\* An agent polls for work when it has no lease and no request in flight.
claim_select(a) ==
    /\ impl = "service"
    /\ clm.pc = "idle"
    /\ held[a] = <<>>
    /\ h[a].pc = "idle"
    /\ \E cands \in queued_by_age :
          /\ cands # <<>>
          /\ clm' = [IdleClaim EXCEPT !.pc = "check_owner", !.agent = a, !.cands = cands]
    /\ UNCHANGED <<call, impl, sc, now, run, stage_run, requires, job, artifact, next_token, h, rcn, held>>

\* A claim that hands out the first candidate whoever owns the run.
claim_check_owner_unpinned ==
    /\ clm.pc = "check_owner"
    /\ clm' = [clm EXCEPT !.pc = "update_job", !.job = Head(clm.cands),
                          !.token = fresh_uuid, !.now = now]
    /\ next_token' = next_token + 1
    /\ UNCHANGED <<call, impl, sc, now, run, stage_run, requires, job, artifact, h, rcn, held>>

\* SELECT * FROM $run and the owner check; a candidate that passes gets a fresh
\* token and now = now_ms().
claim_check_owner ==
    /\ clm.pc = "check_owner"
    /\ IF run.owner_agent # NONE /\ run.owner_agent # clm.agent
         THEN /\ clm' = IF Tail(clm.cands) = <<>> THEN IdleClaim
                        ELSE [clm EXCEPT !.cands = Tail(@)]
              /\ next_token' = next_token
         ELSE /\ clm' = [clm EXCEPT !.pc = "update_job", !.job = Head(clm.cands),
                                    !.token = fresh_uuid, !.now = now]
              /\ next_token' = next_token + 1
    /\ UNCHANGED <<call, impl, sc, now, run, stage_run, requires, job, artifact, h, rcn, held>>

\* UPDATE $job SET status = 'running', lease_* (no WHERE clause).
claim_update_job ==
    /\ clm.pc = "update_job"
    /\ job' = [job EXCEPT ![clm.job] =
                 [@ EXCEPT !.status = "running",
                           !.lease_owner = clm.agent,
                           !.lease_token = clm.token,
                           !.lease_expires_at_ms = clm.now + LeaseMs]]
    /\ clm' = [clm EXCEPT !.pc = "update_owner"]
    /\ UNCHANGED <<call, impl, sc, now, run, stage_run, requires, artifact, next_token, h, rcn, held>>

\* UPDATE $run SET owner_agent, owner_lease_expires_at_ms (no WHERE clause).
claim_update_owner ==
    /\ clm.pc = "update_owner"
    /\ run' = [run EXCEPT !.owner_agent = clm.agent,
                          !.owner_lease_expires_at_ms = clm.now + (LeaseMs * 3)]
    /\ clm' = [clm EXCEPT !.pc = "update_stage"]
    /\ UNCHANGED <<call, impl, sc, now, stage_run, requires, job, artifact, next_token, h, rcn, held>>

\* UPDATE $sr SET status = 'running' (no WHERE clause), then the lease is returned.
claim_update_stage ==
    /\ clm.pc = "update_stage"
    /\ stage_run' = [stage_run EXCEPT ![job[clm.job].stage_run_id].status = "running"]
    /\ held' = [held EXCEPT ![clm.agent] = <<clm.job, clm.token>>]
    /\ clm' = IdleClaim
    /\ UNCHANGED <<call, impl, sc, now, run, requires, job, artifact, next_token, h, rcn>>

\* --------------------------------------------------------------- reconcile
\* A reconciler that also requeues a job whose lease expires at this instant.
reconcile_jobs_at_expiry ==
    /\ impl = "service"
    /\ rcn.pc = "idle"
    /\ job' = [j \in DOMAIN job |->
                 IF job[j].status = "running" /\ job[j].lease_expires_at_ms <= now
                   THEN [job[j] EXCEPT !.status = "queued", !.lease_owner = NONE,
                                       !.lease_token = NoToken, !.lease_expires_at_ms = NoMs]
                   ELSE job[j]]
    /\ rcn' = [pc |-> "runs", now |-> now]
    /\ UNCHANGED <<call, impl, sc, now, run, stage_run, requires, artifact, next_token, h, clm, held>>

reconcile_jobs ==
    /\ impl = "service"
    /\ rcn.pc = "idle"
    /\ job' = [j \in DOMAIN job |->
                 IF /\ job[j].status = "running"
                    /\ job[j].lease_expires_at_ms # NoMs
                    /\ job[j].lease_expires_at_ms < now
                   THEN [job[j] EXCEPT !.status = "queued", !.lease_owner = NONE,
                                       !.lease_token = NoToken, !.lease_expires_at_ms = NoMs]
                   ELSE job[j]]
    /\ rcn' = [pc |-> "runs", now |-> now]
    /\ UNCHANGED <<call, impl, sc, now, run, stage_run, requires, artifact, next_token, h, clm, held>>

reconcile_runs ==
    /\ rcn.pc = "runs"
    /\ run' = IF /\ run.status # "none"
                 /\ run.owner_lease_expires_at_ms # NoMs
                 /\ run.owner_lease_expires_at_ms < rcn.now
                THEN [run EXCEPT !.owner_agent = NONE, !.owner_lease_expires_at_ms = NoMs]
                ELSE run
    /\ rcn' = IdleReconcile
    /\ UNCHANGED <<call, impl, sc, now, stage_run, requires, job, artifact, next_token, h, clm, held>>

\* ================================================================ state.rs
\* orchestrator-daemon/src/state.rs: claim_next_job and complete_job, called by
\* any number of agents at once (no lock).  The jobs they act on were created by
\* the scheduler of that daemon.
MaxAttempts == 2
\* lease_ttl_secs: this daemon's default lease is longer than the service's.
lease_ttl == LeaseMs + 1
StateStages == {"s1"}

StateInit ==
    /\ call = NoCall
    /\ impl = "state"
    /\ sc = [a \in Agents |-> IdleStateClaim]
    /\ now = 0
    /\ run = [status |-> "running", owner_agent |-> NONE, owner_lease_expires_at_ms |-> NoMs]
    /\ \E m \in 1..MaxAttempts :
          stage_run = [s \in StateStages |->
                         [status |-> "pending", kind |-> "exec_block",
                          attempts_used |-> 0, max_attempts |-> m]]
    /\ requires = {}
    /\ job = <<[stage_run_id |-> "s1", status |-> "queued", created_at_ms |-> 0,
                lease_owner |-> NONE, lease_token |-> NoToken, lease_expires_at_ms |-> NoMs]>>
    /\ artifact = <<>>
    /\ next_token = 1
    /\ h = [p \in Procs |-> IdleH]
    /\ clm = IdleClaim
    /\ rcn = IdleReconcile
    /\ held = [a \in Agents |-> <<>>]

\* WHERE status = "queued" OR (status = "running" AND lease_expires_at_ms < $now)
state_claimable(j, t) ==
    \/ job[j].status = "queued"
    \/ /\ job[j].status = "running"
       /\ job[j].lease_expires_at_ms # NoMs
       /\ job[j].lease_expires_at_ms < t

\* SELECT * FROM job WHERE ... ORDER BY created_at_ms LIMIT 10
state_candidates(t) ==
    LET Q == {j \in DOMAIN job : state_claimable(j, t)}
        n == Cardinality(Q)
    IN  {SubSeq(s, 1, Min(ClaimLimit, n)) : s \in
           {f \in [1..n -> Q] :
               \A i, k \in 1..n : i < k =>
                   /\ f[i] # f[k]
                   /\ job[f[i]].created_at_ms <= job[f[k]].created_at_ms}}

fresh_ulid == next_token

state_claim_select(a) ==
    /\ impl = "state"
    /\ sc[a].pc = "idle"
    /\ \E cands \in state_candidates(now) :
          /\ cands # <<>>
          /\ sc' = [sc EXCEPT ![a] = [IdleStateClaim EXCEPT !.pc = "update", !.cands = cands,
                                                            !.now = now]]
    /\ UNCHANGED <<call, impl, now, run, stage_run, requires, job, artifact, next_token, h, clm, rcn, held>>

\* One candidate: a new token and the conditional UPDATE ... RETURN AFTER.
state_claim_update(a) ==
    /\ sc[a].pc = "update"
    /\ LET j == Head(sc[a].cands)
           token == fresh_ulid
       IN  IF state_claimable(j, sc[a].now)
             THEN /\ job' = [job EXCEPT ![j] =
                               [@ EXCEPT !.status = "running",
                                         !.lease_owner = a,
                                         !.lease_token = token,
                                         !.lease_expires_at_ms = sc[a].now + lease_ttl]]
                  /\ sc' = [sc EXCEPT ![a].pc = "select_stage", ![a].job = j, ![a].token = token]
             ELSE /\ job' = job
                  /\ sc' = [sc EXCEPT ![a] = IF Tail(sc[a].cands) = <<>> THEN IdleStateClaim
                                             ELSE [@ EXCEPT !.cands = Tail(@)]]
    /\ next_token' = next_token + 1
    /\ UNCHANGED <<call, impl, now, run, stage_run, requires, artifact, h, clm, rcn, held>>

state_claim_return(a) ==
    /\ held' = [held EXCEPT ![a] = <<sc[a].job, sc[a].token>>]
    /\ sc' = [sc EXCEPT ![a] = IdleStateClaim]

\* The selects of the stage and the run.
state_claim_select_stage(a) ==
    /\ sc[a].pc = "select_stage"
    /\ LET stage == stage_run[job[sc[a].job].stage_run_id]
       IN  IF stage.kind = "exec_block" /\ stage.status # "running"
             THEN /\ sc' = [sc EXCEPT ![a].pc = "mark_stage"]
                  /\ held' = held
             ELSE state_claim_return(a)
    /\ UNCHANGED <<call, impl, now, run, stage_run, requires, job, artifact, next_token, h, clm, rcn>>

\* Mark stage as running for visibility, then Ok(Some(claim)).
state_claim_mark_stage(a) ==
    /\ sc[a].pc = "mark_stage"
    /\ stage_run' = [stage_run EXCEPT ![job[sc[a].job].stage_run_id].status = "running"]
    /\ state_claim_return(a)
    /\ UNCHANGED <<call, impl, now, run, requires, job, artifact, next_token, h, clm, rcn>>

\* What complete_job answers right after selecting the job, "" when it goes on.
state_complete_check(j, lease_token) ==
    IF j \notin DOMAIN job THEN "job not found"
    ELSE IF job[j].status \in {"succeeded", "failed"} THEN "ok"
    ELSE IF job[j].lease_token = NoToken \/ job[j].lease_token # lease_token
           THEN "lease_token mismatch"
    ELSE ""

\* POST of a JobCompleteRequest {job_id, lease_token, succeeded, ...} by caller a,
\* carrying the lease that claim_next_job returned to agent b.
state_complete_select(a, b, st) ==
    /\ impl = "state"
    /\ h[a].pc = "idle"
    /\ held[b] # <<>>
    /\ state_complete_check(held[b][1], held[b][2]) = ""
    /\ h' = [h EXCEPT ![a] = [IdleH EXCEPT !.pc = "select_stage", !.job = held[b][1],
                                          !.token = held[b][2], !.res = st,
                                          !.sr = job[held[b][1]].stage_run_id]]
    /\ UNCHANGED <<call, impl, sc, now, run, stage_run, requires, job, artifact, next_token, clm, rcn, held>>

state_complete_select_stage(a) ==
    /\ h[a].pc = "select_stage"
    /\ h' = [h EXCEPT ![a].pc = "state_update_job", ![a].snap = stage_run[h[a].sr]]
    /\ UNCHANGED <<call, impl, sc, now, run, stage_run, requires, job, artifact, next_token, clm, rcn, held>>

\* update(job).merge({status, updated_at_ms}); the lease fields stay as they are.
state_complete_update_job(a) ==
    /\ h[a].pc = "state_update_job"
    /\ job' = [job EXCEPT ![h[a].job].status = job_status_str(h[a].res)]
    /\ h' = [h EXCEPT ![a].pc = "state_update_stage"]
    /\ UNCHANGED <<call, impl, sc, now, run, stage_run, requires, artifact, next_token, clm, rcn, held>>

\* Stage outcome and retry policy, computed from the stage selected earlier.
state_complete_update_stage(a) ==
    /\ h[a].pc = "state_update_stage"
    /\ LET next_attempts == h[a].snap.attempts_used + 1
       IN  IF h[a].res = "succeeded"
             THEN /\ stage_run' = [stage_run EXCEPT ![h[a].sr].status = "succeeded"]
                  /\ run' = run
             ELSE IF next_attempts < h[a].snap.max_attempts
               THEN /\ stage_run' = [stage_run EXCEPT ![h[a].sr].status = "pending",
                                                      ![h[a].sr].attempts_used = next_attempts]
                    /\ run' = run
               ELSE /\ stage_run' = [stage_run EXCEPT ![h[a].sr].status = "failed",
                                                      ![h[a].sr].attempts_used = next_attempts]
                    /\ run' = [run EXCEPT !.status = "failed"]
    /\ h' = [h EXCEPT ![a] = IdleH]
    /\ UNCHANGED <<call, impl, sc, now, requires, job, artifact, next_token, clm, rcn, held>>


\* ============================================== orchestrator-daemon (api.rs)
\* orchestrator-daemon/src/api.rs, db.rs and scheduler.rs: the HTTP handlers
\* enqueue_demo, agent_claim, agent_heartbeat and agent_complete and the
\* scheduler loop.  A job's lease (Option<Lease>) is the three lease fields of
\* the record; a stage is [status, deps, job_id]; revisions are not modelled.
\* result_file is the result.json of the job's bundle.
TickStages == <<"build", "test">>

\* --lease-seconds, in clock units of the model
lease_seconds == LeaseMs

IdleTickClaim == [pc |-> "idle", cands |-> <<>>, job |-> NoId, token |-> NoToken, now |-> NoMs]
IdleScheduler == [pc |-> "idle", now |-> NoMs, snap |-> <<>>, todo |-> <<>>, any |-> FALSE,
                  job |-> NoId]

\* Db::connect and bootstrap_schema: an empty database.
TickInit ==
    /\ call = NoCall
    /\ impl = "tick"
    /\ sc = [a \in Agents |-> IdleTickClaim]
    /\ now = 0
    /\ run = [status |-> "none", owner_agent |-> NONE, owner_lease_expires_at_ms |-> NoMs]
    /\ stage_run = <<>>
    /\ requires = {}
    /\ job = <<>>
    /\ artifact = <<>>
    /\ next_token = 1
    /\ h = [p \in Procs |-> IdleH]
    /\ clm = IdleClaim
    /\ rcn = IdleScheduler
    /\ held = [a \in Agents |-> <<>>]

\* enqueue_demo: create_run and the two create_stage calls (test depends on build).
tick_enqueue_demo ==
    /\ impl = "tick"
    /\ run.status = "none"
    /\ run' = [run EXCEPT !.status = "queued"]
    /\ stage_run' = [s \in {"build", "test"} |->
                       [status |-> "pending",
                        deps |-> IF s = "test" THEN {"build"} ELSE {},
                        job_id |-> NoId]]
    /\ UNCHANGED <<call, impl, sc, now, requires, job, artifact, next_token, h, clm, rcn, held>>

\* Db::create_job
TickJob(stage_id, attempt) ==
    [stage_run_id |-> stage_id, status |-> "queued", created_at_ms |-> now, attempt |-> attempt,
     started_ms |-> NoMs, lease_owner |-> NONE, lease_token |-> NoToken, lease_expires_at_ms |-> NoMs,
     result_file |-> NONE]

\* ---------------------------------------------------------------- scheduler
\* scheduler_tick / schedule_run: list the stages of a run that is not terminal
\* and walk the pending ones that have no job.  A tick that finds none changes
\* nothing.
tick_schedule_select ==
    /\ impl = "tick"
    /\ rcn.pc = "idle"
    /\ run.status \in {"queued", "running"}
    /\ LET todo == SelectSeq(TickStages, LAMBDA s : /\ s \in DOMAIN stage_run
                                                    /\ stage_run[s].status = "pending"
                                                    /\ stage_run[s].job_id = NoId)
       IN  /\ todo # <<>>
           /\ rcn' = [IdleScheduler EXCEPT !.pc = "stage", !.snap = stage_run, !.todo = todo]
    /\ UNCHANGED <<call, impl, sc, now, run, stage_run, requires, job, artifact, next_token, h, clm, held>>

SchedulerNext(any) ==
    IF Tail(rcn.todo) # <<>> THEN [rcn EXCEPT !.pc = "stage", !.todo = Tail(@), !.any = any]
    ELSE IF any THEN [rcn EXCEPT !.pc = "run_update", !.todo = <<>>, !.any = any]
    ELSE IdleScheduler

\* One pending stage: the dependency check on the listed stages, then either
\* update_stage_state(Blocked), nothing, or the count of the stage's jobs and
\* create_job.
tick_schedule_stage ==
    /\ rcn.pc = "stage"
    /\ LET s == Head(rcn.todo)
           deps == rcn.snap[s].deps
           deps_failed == \E d \in deps : rcn.snap[d].status \in {"failed", "blocked"}
           deps_ok == \A d \in deps : rcn.snap[d].status = "succeeded"
           attempt == Cardinality({j \in DOMAIN job : job[j].stage_run_id = s}) + 1
       IN  IF deps_failed
             THEN /\ stage_run' = [stage_run EXCEPT ![s].status = "blocked", ![s].job_id = NoId]
                  /\ job' = job
                  /\ rcn' = SchedulerNext(rcn.any)
             ELSE IF ~deps_ok
               THEN /\ UNCHANGED <<stage_run, job>>
                    /\ rcn' = SchedulerNext(rcn.any)
               ELSE /\ job' = Append(job, TickJob(s, attempt))
                    /\ stage_run' = stage_run
                    /\ rcn' = [rcn EXCEPT !.pc = "stage_update", !.job = Len(job) + 1]
    /\ UNCHANGED <<call, impl, sc, now, run, requires, artifact, next_token, h, clm, held>>

\* update_stage_state(stage, Pending, input_rev, output_revision, Some(job.id))
tick_schedule_stage_update ==
    /\ rcn.pc = "stage_update"
    /\ stage_run' = [stage_run EXCEPT ![Head(rcn.todo)].status = "pending",
                                      ![Head(rcn.todo)].job_id = rcn.job]
    /\ rcn' = SchedulerNext(TRUE)
    /\ UNCHANGED <<call, impl, sc, now, run, requires, job, artifact, next_token, h, clm, held>>

\* any_enqueued: update_run_state(Running)
tick_schedule_run_update ==
    /\ rcn.pc = "run_update"
    /\ run' = [run EXCEPT !.status = "running"]
    /\ rcn' = IdleScheduler
    /\ UNCHANGED <<call, impl, sc, now, stage_run, requires, job, artifact, next_token, h, clm, held>>

\* -------------------------------------------------------------- agent_claim
\* WHERE state = 'queued' AND (lease.expires_ms IS NONE OR lease.expires_ms < $now)
tick_claimable(j, t) ==
    /\ job[j].status = "queued"
    /\ (job[j].lease_expires_at_ms = NoMs \/ job[j].lease_expires_at_ms < t)

\* SELECT * FROM job WHERE ... ORDER BY created_ms ASC LIMIT 10
tick_candidates(t) ==
    LET Q == {j \in DOMAIN job : tick_claimable(j, t)}
        n == Cardinality(Q)
    IN  {SubSeq(s, 1, Min(ClaimLimit, n)) : s \in
           {f \in [1..n -> Q] :
               \A i, k \in 1..n : i < k =>
                   /\ f[i] # f[k]
                   /\ job[f[i]].created_at_ms <= job[f[k]].created_at_ms}}

\* Db::claim_next_job: now_ms() and the SELECT of the candidates.  An agent
\* polls when it has no lease and no request in flight.
tick_claim_select(a) ==
    /\ impl = "tick"
    /\ sc[a].pc = "idle"
    /\ h[a].pc = "idle"
    /\ held[a] = <<>>
    /\ \E cands \in tick_candidates(now) :
          /\ cands # <<>>
          /\ sc' = [sc EXCEPT ![a] = [IdleTickClaim EXCEPT !.pc = "tick_update", !.cands = cands,
                                                           !.now = now]]
    /\ UNCHANGED <<call, impl, now, run, stage_run, requires, job, artifact, next_token, h, clm, rcn, held>>

\* One candidate: Uuid::new_v4() and the conditional UPDATE ... RETURN AFTER.  A
\* token that the UPDATE did not write is seen by nobody, so only a written
\* token advances the generator.
tick_claim_update(a) ==
    /\ sc[a].pc = "tick_update"
    /\ LET j == Head(sc[a].cands)
           token == fresh_uuid
       IN  IF tick_claimable(j, sc[a].now)
             THEN /\ job' = [job EXCEPT ![j] =
                               [@ EXCEPT !.status = "running",
                                         !.started_ms = sc[a].now,
                                         !.lease_owner = a,
                                         !.lease_token = token,
                                         !.lease_expires_at_ms = sc[a].now + lease_seconds]]
                  /\ sc' = [sc EXCEPT ![a].pc = "tick_mark_stage", ![a].job = j, ![a].token = token]
                  /\ next_token' = next_token + 1
             ELSE /\ job' = job
                  /\ sc' = [sc EXCEPT ![a] = IF Tail(sc[a].cands) = <<>> THEN IdleTickClaim
                                             ELSE [@ EXCEPT !.cands = Tail(@)]]
                  /\ next_token' = next_token
    /\ UNCHANGED <<call, impl, now, run, stage_run, requires, artifact, h, clm, rcn, held>>

\* agent_claim: get_stage, get_run, ensure_dir, prepare_workspace and
\* update_stage_state(stage, Running, .., stage.job_id), then the assignment is
\* returned.
tick_claim_mark_stage(a) ==
    /\ sc[a].pc = "tick_mark_stage"
    /\ stage_run' = [stage_run EXCEPT ![job[sc[a].job].stage_run_id].status = "running"]
    /\ held' = [held EXCEPT ![a] = <<sc[a].job, sc[a].token>>]
    /\ sc' = [sc EXCEPT ![a] = IdleTickClaim]
    /\ UNCHANGED <<call, impl, now, run, requires, job, artifact, next_token, h, clm, rcn>>

\* The agent process stops and forgets its lease.
tick_agent_stop(a) ==
    /\ impl = "tick"
    /\ held[a] # <<>>
    /\ held' = [held EXCEPT ![a] = <<>>]
    /\ UNCHANGED <<call, impl, sc, now, run, stage_run, requires, job, artifact, next_token, h, clm, rcn>>

\* ---------------------------------------------------------- agent_heartbeat
\* A renewal that does not look at the job's state.
renew_lease_any_state(j, agent_id, token) ==
    IF /\ j \in DOMAIN job
       /\ job[j].lease_owner = agent_id
       /\ job[j].lease_token = token
      THEN <<[job[j] EXCEPT !.lease_expires_at_ms = now + lease_seconds]>>
      ELSE <<>>

\* Db::renew_lease: UPDATE job SET lease.expires_ms = $expires WHERE id = $id AND
\* state = 'running' AND lease.agent_id = $agent AND lease.token = $token RETURN AFTER:
\* the updated row, <<>> when no row matched.
renew_lease(j, agent_id, token) ==
    IF /\ j \in DOMAIN job
       /\ job[j].status = "running"
       /\ job[j].lease_owner = agent_id
       /\ job[j].lease_token = token
      THEN <<[job[j] EXCEPT !.lease_expires_at_ms = now + lease_seconds]>>
      ELSE <<>>

\* HeartbeatResponse { ok: lease.is_some(), new_expires_ms: lease.map(|l| l.expires_ms) }
HeartbeatResponse(row) ==
    [ok |-> row # <<>>,
     new_expires_ms |-> IF row # <<>> THEN row[1].lease_expires_at_ms ELSE NoMs]

\* POST /v1/agent/heartbeat with any agent id, job id and token.
tick_heartbeat(a, j, t) ==
    /\ impl = "tick"
    /\ job' = IF renew_lease(j, a, t) # <<>>
                THEN [job EXCEPT ![j] = renew_lease(j, a, t)[1]]
                ELSE job
    /\ UNCHANGED <<call, impl, sc, now, run, stage_run, requires, artifact, next_token, h, clm, rcn, held>>

\* ----------------------------------------------------------- agent_complete
\* The agent sends CompleteRequest {agent_id, job_id, lease_token, result} for
\* the lease it holds.  get_job, result.json is written into the job's bundle,
\* and Db::complete_job: UPDATE job SET state = $state, .. WHERE id = $id AND
\* lease.agent_id = $agent AND lease.token = $token RETURN BEFORE; ok when a row
\* matched, else CompleteResponse { ok: false }.
tick_complete_job(a, st) ==
    /\ impl = "tick"
    /\ h[a].pc = "idle"
    /\ sc[a].pc = "idle"
    /\ held[a] # <<>>
    /\ LET j == held[a][1]
           ok == job[j].lease_owner = a /\ job[j].lease_token = held[a][2]
       IN  /\ job' = [job EXCEPT ![j].result_file = st,
                                 ![j].status = IF ok THEN job_status_str(st) ELSE @]
           /\ h' = IF ok
                     THEN [h EXCEPT ![a] = [IdleH EXCEPT !.pc = "tick_update_stage", !.job = j,
                                                         !.token = held[a][2], !.res = st,
                                                         !.sr = job[j].stage_run_id]]
                     ELSE h
    /\ held' = [held EXCEPT ![a] = <<>>]
    /\ UNCHANGED <<call, impl, sc, now, run, stage_run, requires, artifact, next_token, clm, rcn>>

\* get_job and update_stage_state(job.stage_id, stage_state, .., Some(job.id)).
tick_complete_update_stage(a) ==
    /\ h[a].pc = "tick_update_stage"
    /\ stage_run' = [stage_run EXCEPT ![h[a].sr].status = job_status_str(h[a].res),
                                      ![h[a].sr].job_id = h[a].job]
    /\ h' = [h EXCEPT ![a].pc = "tick_update_run"]
    /\ UNCHANGED <<call, impl, sc, now, run, requires, job, artifact, next_token, clm, rcn, held>>

\* Wire downstream stages (update_stage_state(s, Pending, .., s.job_id) for the
\* listed pending stages whose only dependency is the completed stage), then
\* list_stages_for_run and update_run_state, then CompleteResponse { ok: true }.
tick_complete_update_run(a) ==
    /\ h[a].pc = "tick_update_run"
    /\ stage_run' = [s \in DOMAIN stage_run |->
                       IF stage_run[s].status = "pending" /\ stage_run[s].deps = {h[a].sr}
                         THEN [stage_run[s] EXCEPT !.status = "pending", !.job_id = stage_run[s].job_id]
                         ELSE stage_run[s]]
    /\ LET all_done == \A s \in DOMAIN stage_run : stage_run[s].status \in {"succeeded", "failed"}
           any_failed == \E s \in DOMAIN stage_run : stage_run[s].status = "failed"
       IN  run' = [run EXCEPT !.status = IF all_done
                                           THEN (IF any_failed THEN "failed" ELSE "succeeded")
                                           ELSE "running"]
    /\ h' = [h EXCEPT ![a] = IdleH]
    /\ UNCHANGED <<call, impl, sc, now, requires, job, artifact, next_token, clm, rcn, held>>

\* The clock of this daemon's runs: long enough for a lease to expire.
tick_clock ==
    /\ impl = "tick"
    /\ now <= lease_seconds
    /\ now' = now + 1
    /\ UNCHANGED <<call, impl, sc, run, stage_run, requires, job, artifact, next_token, h, clm, rcn, held>>

TickNext ==
    \/ tick_clock
    \/ tick_enqueue_demo
    \/ tick_schedule_select \/ tick_schedule_stage
    \/ tick_schedule_stage_update \/ tick_schedule_run_update
    \/ \E a \in Agents : tick_claim_select(a) \/ tick_claim_update(a) \/ tick_claim_mark_stage(a)
    \/ \E a \in Agents : tick_agent_stop(a)
    \/ \E a \in Agents, j \in DOMAIN job, t \in 1..(next_token - 1) : tick_heartbeat(a, j, t)
    \/ \E a \in Agents, st \in ResultStatuses : tick_complete_job(a, st)
    \/ \E a \in Agents : tick_complete_update_stage(a) \/ tick_complete_update_run(a)

TickSpec == TickInit /\ [][TickNext]_vars

\* The scheduler loop ticks for ever, every agent that is up keeps polling
\* /v1/agent/claim, and a handler that has started runs to its end.
TickFairness ==
    /\ WF_vars(tick_clock)
    /\ WF_vars(tick_schedule_select \/ tick_schedule_stage
                 \/ tick_schedule_stage_update \/ tick_schedule_run_update)
    /\ \A a \in Agents :
          /\ WF_vars(tick_claim_select(a) \/ tick_claim_update(a) \/ tick_claim_mark_stage(a))
          /\ WF_vars(tick_complete_update_stage(a) \/ tick_complete_update_run(a))

TickFairSpec == TickSpec /\ TickFairness

\* --------------------------------------------------------- the happy path
\* Runs of service.rs in which the project path passes validation, agents
\* never stop and every result is succeeded.
\* Every handler that has started runs to its end, the reconciler loop keeps
\* ticking, and every agent gets its turn at claim_lock (a fair mutex) and
\* posts the Complete of the job it holds.
HappySpec ==
    /\ ServiceInit
    /\ [][
        \/ Tick
        \/ \E path \in ProjectPaths \ {EmptyPath} : demo_enqueue(path)
        \/ \E p \in Procs : promote_unmet(p) \/ enqueue_job_check(p) \/ enqueue_job_create(p)
        \/ \E a \in Agents : complete_fetch(a, "succeeded")
        \/ \E a \in Agents : complete_update_job(a) \/ complete_update_stage(a)
        \/ \E a \in Agents : enqueue_downstream(a)
        \/ \E a \in Agents : run_fail_count(a) \/ run_remaining(a) \/ run_set_succeeded(a)
        \/ \E a \in Agents : claim_select(a)
        \/ claim_check_owner \/ claim_update_job \/ claim_update_owner \/ claim_update_stage
        \/ reconcile_jobs \/ reconcile_runs
       ]_vars
    /\ WF_vars(Tick)
    /\ WF_vars(reconcile_jobs \/ reconcile_runs)
    /\ WF_vars(claim_check_owner \/ claim_update_job \/ claim_update_owner \/ claim_update_stage)
    /\ \A p \in Procs :
          WF_vars(promote_unmet(p) \/ enqueue_job_check(p) \/ enqueue_job_create(p))
    /\ \A a \in Agents :
          /\ SF_vars(claim_select(a))
          /\ WF_vars(complete_fetch(a, "succeeded"))
          /\ WF_vars(complete_update_job(a) \/ complete_update_stage(a) \/ enqueue_downstream(a)
                       \/ run_fail_count(a) \/ run_remaining(a) \/ run_set_succeeded(a))

\* ==================================== orchestrator-daemon: revision handoff
\* scheduler.rs, api.rs and db.rs again, now with the revision fields of Run,
\* Stage and Job and with workflows of three stages, so that a stage may have
\* two dependencies.  A stage is [status, deps, input_revision,
\* output_revision, job_id] with deps the Vec<Id> in its order; a job is
\* [stage_run_id, status, input_revision, output_revision, lease_owner,
\* lease_token].  The clock stands still: a lease plays no part once a job is
\* running (claim_next_job takes queued jobs only).
RevStages == <<"left", "right", "merge">>

\* The deps of the three stages: a join, a chain, and a fan-out.
RevWorkflows ==
    { [left |-> <<>>, right |-> <<>>, merge |-> <<"left", "right">>],
      [left |-> <<>>, right |-> <<"left">>, merge |-> <<"right">>] }

\* vcs::current_revision of the project root and of a job's workspace (jj is
\* installed, so each is a commit id).
BaseRevision == "r0"
OutputRevisions == {"r1", "r2"}

\* create_job is refused beyond this many jobs.
MaxJobs == 4

IdleRevScheduler == [pc |-> "idle", snap |-> <<>>, todo |-> <<>>, any |-> FALSE, job |-> NoId,
                     input_rev |-> NONE]

\* create_run and create_stage for each stage of the workflow: every stage
\* pending, no revisions, no job.
RevInit ==
    /\ call = NoCall
    /\ impl = "rev"
    /\ sc = [a \in Agents |-> IdleTickClaim]
    /\ now = 0
    /\ run = [status |-> "queued", base_revision |-> BaseRevision]
    /\ \E w \in RevWorkflows :
          stage_run = [s \in {"left", "right", "merge"} |->
                         [status |-> "pending", deps |-> w[s], input_revision |-> NONE,
                          output_revision |-> NONE, job_id |-> NoId]]
    /\ requires = {}
    /\ job = <<>>
    /\ artifact = <<>>
    /\ next_token = 1
    /\ h = [p \in Procs |-> IdleH]
    /\ clm = IdleClaim
    /\ rcn = IdleRevScheduler
    /\ held = [a \in Agents |-> <<>>]

\* update_stage_state: UPDATE stage SET state, input_revision, output_revision,
\* job_id WHERE id = $id, all four columns every time.
update_stage_state(stages, s, state, inrev, outrev, job_id) ==
    [stages EXCEPT ![s] = [@ EXCEPT !.status = state, !.input_revision = inrev,
                                    !.output_revision = outrev, !.job_id = job_id]]

\* scheduler_tick / schedule_run: list_stages_for_run of a run that is not
\* terminal; the loop walks the listed stages that are pending without job.
rev_schedule_select ==
    /\ impl = "rev"
    /\ rcn.pc = "idle"
    /\ run.status \notin {"succeeded", "failed"}
    /\ LET todo == SelectSeq(RevStages, LAMBDA s : /\ stage_run[s].status = "pending"
                                                   /\ stage_run[s].job_id = NoId)
       IN  /\ todo # <<>>
           /\ rcn' = [IdleRevScheduler EXCEPT !.pc = "stage", !.snap = stage_run, !.todo = todo]
    /\ UNCHANGED <<call, impl, sc, now, run, stage_run, requires, job, artifact, next_token, h, clm, held>>

RevSchedulerNext(any) ==
    IF Tail(rcn.todo) # <<>>
      THEN [IdleRevScheduler EXCEPT !.pc = "stage", !.snap = rcn.snap, !.todo = Tail(rcn.todo),
                                    !.any = any]
      ELSE IF any THEN [IdleRevScheduler EXCEPT !.pc = "run_update"]
      ELSE IdleRevScheduler

\* One listed stage of the loop, up to and including create_job.  The
\* dependency loop breaks at the first dependency that is not succeeded
\* (first_unmet); dep_revs holds the output_revision of each dependency that
\* has one; "Determine input revision" either gives input_rev or blocks the
\* stage because its dependencies' revisions differ (diverges).
rev_schedule_stage ==
    /\ rcn.pc = "stage"
    /\ LET s == Head(rcn.todo)
           snap == rcn.snap
           deps == snap[s].deps
           U == {i \in 1..Len(deps) : snap[deps[i]].status # "succeeded"}
           first_unmet == IF U = {} THEN 0 ELSE CHOOSE i \in U : \A k \in U : i <= k
           deps_ok == first_unmet = 0
           deps_failed == first_unmet # 0 /\ snap[deps[first_unmet]].status \in {"failed", "blocked"}
           outs == [i \in 1..Len(deps) |-> snap[deps[i]].output_revision]
           dep_revs == SelectSeq(outs, LAMBDA r : r # NONE)
           all_same == \A i \in 1..Len(dep_revs) : dep_revs[i] = dep_revs[1]
           diverges == snap[s].input_revision = NONE /\ Len(deps) > 1 /\ ~all_same
           input_rev == IF snap[s].input_revision # NONE THEN snap[s].input_revision
                        ELSE IF deps = <<>> THEN run.base_revision
                        ELSE IF dep_revs = <<>> THEN NONE
                        ELSE dep_revs[1]
       IN  IF deps_failed
             THEN /\ stage_run' = update_stage_state(stage_run, s, "blocked",
                                                     snap[s].input_revision, NONE, NoId)
                  /\ job' = job
                  /\ rcn' = RevSchedulerNext(rcn.any)
           ELSE IF ~deps_ok
             THEN /\ UNCHANGED <<stage_run, job>>
                  /\ rcn' = RevSchedulerNext(rcn.any)
           ELSE IF diverges
             THEN /\ stage_run' = update_stage_state(stage_run, s, "blocked", NONE, NONE, NoId)
                  /\ job' = job
                  /\ rcn' = RevSchedulerNext(rcn.any)
           ELSE /\ Len(job) < MaxJobs
                /\ stage_run' = IF snap[s].input_revision = NONE /\ input_rev # NONE
                                  THEN update_stage_state(stage_run, s, "pending", input_rev,
                                                          snap[s].output_revision, NoId)
                                  ELSE stage_run
                /\ job' = Append(job, [stage_run_id |-> s, status |-> "queued",
                                       input_revision |-> input_rev, output_revision |-> NONE,
                                       lease_owner |-> NONE, lease_token |-> NoToken])
                /\ rcn' = [rcn EXCEPT !.pc = "stage_update", !.job = Len(job) + 1,
                                      !.input_rev = input_rev]
    /\ UNCHANGED <<call, impl, sc, now, run, requires, artifact, next_token, h, clm, held>>

\* update_stage_state(stage, Pending, input_rev, stage.output_revision, Some(job.id))
rev_schedule_stage_update ==
    /\ rcn.pc = "stage_update"
    /\ LET s == Head(rcn.todo)
       IN  stage_run' = update_stage_state(stage_run, s, "pending", rcn.input_rev,
                                           rcn.snap[s].output_revision, rcn.job)
    /\ rcn' = RevSchedulerNext(TRUE)
    /\ UNCHANGED <<call, impl, sc, now, run, requires, job, artifact, next_token, h, clm, held>>

\* any_enqueued: update_run_state(Running)
rev_schedule_run_update ==
    /\ rcn.pc = "run_update"
    /\ run' = [run EXCEPT !.status = "running"]
    /\ rcn' = IdleRevScheduler
    /\ UNCHANGED <<call, impl, sc, now, stage_run, requires, job, artifact, next_token, h, clm, held>>

\* agent_claim: Db::claim_next_job on a queued job, get_stage and
\* update_stage_state(stage, Running, stage.input_revision,
\* stage.output_revision, stage.job_id); the assignment is returned.
rev_claim_job(a) ==
    /\ impl = "rev"
    /\ h[a].pc = "idle"
    /\ held[a] = <<>>
    /\ \E j \in DOMAIN job :
          /\ job[j].status = "queued"
          /\ job' = [job EXCEPT ![j] = [@ EXCEPT !.status = "running", !.lease_owner = a,
                                                 !.lease_token = fresh_uuid]]
          /\ LET s == job[j].stage_run_id
             IN  stage_run' = update_stage_state(stage_run, s, "running",
                                                 stage_run[s].input_revision,
                                                 stage_run[s].output_revision, stage_run[s].job_id)
          /\ held' = [held EXCEPT ![a] = <<j, fresh_uuid>>]
    /\ next_token' = next_token + 1
    /\ UNCHANGED <<call, impl, sc, now, run, requires, artifact, h, clm, rcn>>

\* agent_complete: Db::complete_job with the result's status and
\* output_revision, for the lease the agent holds.
rev_complete_job(a, st, outrev) ==
    /\ impl = "rev"
    /\ h[a].pc = "idle"
    /\ held[a] # <<>>
    /\ LET j == held[a][1]
           ok == job[j].lease_owner = a /\ job[j].lease_token = held[a][2]
       IN  /\ job' = IF ok THEN [job EXCEPT ![j].status = job_status_str(st),
                                            ![j].output_revision = outrev]
                     ELSE job
           /\ h' = IF ok
                     THEN [h EXCEPT ![a] = [IdleH EXCEPT !.pc = "rev_update_stage", !.job = j,
                                                         !.res = st, !.snap = outrev,
                                                         !.sr = job[j].stage_run_id]]
                     ELSE h
    /\ held' = [held EXCEPT ![a] = <<>>]
    /\ UNCHANGED <<call, impl, sc, now, run, stage_run, requires, artifact, next_token, clm, rcn>>

\* get_job and update_stage_state(job.stage_id, stage_state, job.input_revision,
\* result.output_revision, Some(job.id)); then "Wire downstream stages that
\* have exactly one dep": list_stages_for_run and the filter on the listed
\* stages, whose job_id columns are kept for the updates.
rev_complete_update_stage(a) ==
    /\ h[a].pc = "rev_update_stage"
    /\ stage_run' = update_stage_state(stage_run, h[a].sr, job_status_str(h[a].res),
                                       job[h[a].job].input_revision, h[a].snap, h[a].job)
    /\ h' = [h EXCEPT ![a].pc = "rev_wire_update",
                      ![a].todo = SelectSeq(RevStages,
                                     LAMBDA s : /\ stage_run'[s].status = "pending"
                                                /\ stage_run'[s].deps = <<h[a].sr>>),
                      ![a].outs = [i \in 1..Len(RevStages) |-> stage_run'[RevStages[i]].job_id]]
    /\ UNCHANGED <<call, impl, sc, now, run, requires, job, artifact, next_token, clm, rcn, held>>

\* For each listed stage: update_stage_state(s, Pending, result.output_revision,
\* None, s.job_id) and UPDATE job SET input_revision WHERE stage_id = s AND
\* state = 'queued'.  Then "Update run state if all stages finished":
\* list_stages_for_run and update_run_state, and CompleteResponse { ok: true }.
rev_complete_wire_update(a) ==
    /\ h[a].pc = "rev_wire_update"
    /\ LET W == {h[a].todo[i] : i \in 1..Len(h[a].todo)}
           RevIndex(s) == CHOOSE i \in 1..Len(RevStages) : RevStages[i] = s
           all_done == \A s \in DOMAIN stage_run : stage_run'[s].status \in {"succeeded", "failed"}
           any_failed == \E s \in DOMAIN stage_run : stage_run'[s].status = "failed"
       IN  /\ stage_run' = [s \in DOMAIN stage_run |->
                              IF s \in W
                                THEN [stage_run[s] EXCEPT !.status = "pending",
                                                          !.input_revision = h[a].snap,
                                                          !.output_revision = NONE,
                                                          !.job_id = h[a].outs[RevIndex(s)]]
                                ELSE stage_run[s]]
           /\ job' = [j \in DOMAIN job |->
                        IF job[j].stage_run_id \in W /\ job[j].status = "queued"
                          THEN [job[j] EXCEPT !.input_revision = h[a].snap]
                          ELSE job[j]]
           /\ run' = [run EXCEPT !.status = IF all_done
                                               THEN (IF any_failed THEN "failed" ELSE "succeeded")
                                               ELSE "running"]
    /\ h' = [h EXCEPT ![a] = IdleH]
    /\ UNCHANGED <<call, impl, sc, now, requires, artifact, next_token, clm, rcn, held>>

RevSpec ==
    /\ RevInit
    /\ [][
        \/ rev_schedule_select \/ rev_schedule_stage
        \/ rev_schedule_stage_update \/ rev_schedule_run_update
        \/ \E a \in Agents : rev_claim_job(a)
        \/ \E a \in Agents, st \in ResultStatuses, outrev \in OutputRevisions :
              rev_complete_job(a, st, outrev)
        \/ \E a \in Agents : rev_complete_update_stage(a) \/ rev_complete_wire_update(a)
       ]_vars

\* schedule_run as a function of the tables, with no other handler between
\* its statements: the stages of `todo` are walked against the snapshot `snap`
\* taken by list_stages_for_run, the updates go to `stages` and `jobs`.
RECURSIVE schedule_run(_, _, _, _)
schedule_run(todo, snap, stages, jobs) ==
    IF todo = <<>> THEN [stages |-> stages, jobs |-> jobs]
    ELSE LET s == Head(todo)
             deps == snap[s].deps
             U == {i \in 1..Len(deps) : snap[deps[i]].status # "succeeded"}
             first_unmet == IF U = {} THEN 0 ELSE CHOOSE i \in U : \A k \in U : i <= k
             deps_failed == first_unmet # 0
                              /\ snap[deps[first_unmet]].status \in {"failed", "blocked"}
             outs == [i \in 1..Len(deps) |-> snap[deps[i]].output_revision]
             dep_revs == SelectSeq(outs, LAMBDA r : r # NONE)
             all_same == \A i \in 1..Len(dep_revs) : dep_revs[i] = dep_revs[1]
             input_rev == IF snap[s].input_revision # NONE THEN snap[s].input_revision
                          ELSE IF deps = <<>> THEN BaseRevision
                          ELSE IF dep_revs = <<>> THEN NONE
                          ELSE dep_revs[1]
         IN  IF deps_failed
               THEN schedule_run(Tail(todo), snap,
                                 update_stage_state(stages, s, "blocked",
                                                    snap[s].input_revision, NONE, NoId), jobs)
             ELSE IF first_unmet # 0 THEN schedule_run(Tail(todo), snap, stages, jobs)
             ELSE IF snap[s].input_revision = NONE /\ Len(deps) > 1 /\ ~all_same
               THEN schedule_run(Tail(todo), snap,
                                 update_stage_state(stages, s, "blocked", NONE, NONE, NoId),
                                 jobs)
             ELSE schedule_run(Tail(todo), snap,
                               update_stage_state(stages, s, "pending", input_rev,
                                                  snap[s].output_revision, Len(jobs) + 1),
                               Append(jobs, [stage_run_id |-> s, status |-> "queued",
                                             input_revision |-> input_rev,
                                             output_revision |-> NONE,
                                             lease_owner |-> NONE, lease_token |-> NoToken]))

\* ================================================ library functions on trial
\* A specification of this part draws one argument from a bounded set, applies
\* one function to it and keeps what it returned in `call`; the daemons' state
\* stays empty.
LibInit(fn, args) ==
    /\ impl = "lib"
    /\ call \in {[fn |-> fn, arg |-> x, done |-> FALSE, ret |-> <<>>] : x \in args}
    /\ sc = [a \in Agents |-> IdleTickClaim]
    /\ now = 0
    /\ run = [status |-> "none", owner_agent |-> NONE, owner_lease_expires_at_ms |-> NoMs]
    /\ stage_run = <<>>
    /\ requires = {}
    /\ job = <<>>
    /\ artifact = <<>>
    /\ next_token = 1
    /\ h = [p \in Procs |-> IdleH]
    /\ clm = IdleClaim
    /\ rcn = IdleReconcile
    /\ held = [a \in Agents |-> <<>>]

\* The call returns r.
Return(r) ==
    /\ ~call.done
    /\ call' = [call EXCEPT !.done = TRUE, !.ret = r]
    /\ UNCHANGED <<impl, sc, now, run, stage_run, requires, job, artifact, next_token, h, clm, rcn, held>>

\* ------------------------------- orchestrator-core/src/validate.rs: workflows
MaxNodes == 3
MaxEdges == 3

\* The workflows under test.  A command is its argv; an Option<ExecBlockSpec> is
\* <<>> or <<block>>.  The first node is an exec block with a valid exec, with
\* an exec that validate_exec_block rejects or with none, or a node of another
\* kind without exec; the other nodes are exec blocks with a valid exec.
WorkflowSpecs ==
    LET WfIds == {"a", "b", "c"}
        GoodExec == <<[allow_shell |-> FALSE, commands |-> <<<<"echo", "hi">>>>]>>
        BadExec == <<[allow_shell |-> FALSE, commands |-> <<<<"bash", "-c", "ls">>>>]>>
        FirstNodes ==
           { [kind |-> "exec_block", exec |-> GoodExec], [kind |-> "exec_block", exec |-> BadExec],
             [kind |-> "exec_block", exec |-> <<>>], [kind |-> "other", exec |-> <<>>] }
    IN  { [nodes |-> [i \in 1..Len(ids) |->
                        IF i = 1 THEN [id |-> ids[i], kind |-> first.kind, exec |-> first.exec]
                        ELSE [id |-> ids[i], kind |-> "exec_block", exec |-> GoodExec]],
           edges |-> es] :
             ids \in UNION {[1..n -> WfIds] : n \in 0..MaxNodes},
             first \in FirstNodes,
             es \in UNION {[1..n -> [from : WfIds, to : WfIds]] : n \in 0..MaxEdges} }

Ok == [ok |-> TRUE, err |-> NONE, at |-> NONE]
Err(e, x) == [ok |-> FALSE, err |-> e, at |-> x]

\* validate.rs validate_command(cmd, allow_shell)
wf_validate_command(argv, allow_shell) ==
    IF argv = <<>> THEN Err("EmptyArgv", NONE)
    ELSE IF argv[1] \in {"sudo", "shutdown", "reboot", "mkfs", "dd", "kill", "killall"}
      THEN Err("DisallowedCommand", argv[1])
    ELSE IF /\ argv[1] \in {"sh", "bash", "zsh", "fish"}
            /\ Len(argv) >= 2 /\ argv[2] = "-c"
            /\ ~allow_shell
      THEN Err("ShellNotAllowed", argv[1])
    ELSE Ok

\* "Unique node IDs": the loop over spec.nodes with the set `seen`;
\* validate_exec_block returns the error of the first command that fails.
RECURSIVE validate_nodes(_, _, _)
validate_nodes(nodes, i, seen) ==
    LET exec == nodes[i].exec[1]
        bad == {c \in 1..Len(exec.commands) :
                  ~wf_validate_command(exec.commands[c], exec.allow_shell).ok}
        first_bad == CHOOSE c \in bad : \A k \in bad : c <= k
    IN  IF i > Len(nodes) THEN Ok
        ELSE IF nodes[i].id \in seen THEN Err("DuplicateNodeId", nodes[i].id)
        ELSE IF nodes[i].kind = "exec_block" /\ nodes[i].exec = <<>>
          THEN Err("MissingExec", nodes[i].id)
        ELSE IF nodes[i].exec # <<>> /\ bad # {}
          THEN wf_validate_command(exec.commands[first_bad], exec.allow_shell)
        ELSE validate_nodes(nodes, i + 1, seen \cup {nodes[i].id})

\* "Edges reference existing nodes"
RECURSIVE validate_edges(_, _, _)
validate_edges(edges, i, ids) ==
    IF i > Len(edges) THEN Ok
    ELSE IF edges[i].from \notin ids THEN Err("MissingNode", edges[i].from)
    ELSE IF edges[i].to \notin ids THEN Err("MissingNode", edges[i].to)
    ELSE validate_edges(edges, i + 1, ids)

\* A graph that leaves out the edges from a node to itself.
graph_without_self_loops(spec, ids) ==
    [v \in ids |->
       LET out == SelectSeq(spec.edges, LAMBDA e : e.from = v /\ e.to # v)
       IN  [i \in 1..Len(out) |-> out[i].to]]

\* graph: from -> the `to` of its edges, in the order of spec.edges
graph(spec, ids) ==
    [v \in ids |->
       LET out == SelectSeq(spec.edges, LAMBDA e : e.from = v)
       IN  [i \in 1..Len(out) |-> out[i].to]]

\* fn visit: TRUE in .cycle when a cycle is found; temp and perm are the two
\* HashSets it updates.  visit_each is a loop of visit calls that stops at the
\* first cycle (the loop over a node's successors and the loop over ids).
RECURSIVE visit(_, _, _, _)
RECURSIVE visit_each(_, _, _, _)
visit(v, g, temp, perm) ==
    IF v \in perm THEN [cycle |-> FALSE, temp |-> temp, perm |-> perm]
    ELSE IF v \in temp THEN [cycle |-> TRUE, temp |-> temp, perm |-> perm]
    ELSE LET r == visit_each(g[v], g, temp \cup {v}, perm)
         IN  IF r.cycle THEN r
             ELSE [cycle |-> FALSE, temp |-> r.temp \ {v}, perm |-> r.perm \cup {v}]

visit_each(ns, g, temp, perm) ==
    IF ns = <<>> THEN [cycle |-> FALSE, temp |-> temp, perm |-> perm]
    ELSE LET r == visit(Head(ns), g, temp, perm)
         IN  IF r.cycle THEN r ELSE visit_each(Tail(ns), g, r.temp, r.perm)

\* validate_workflow(spec); order is the order in which the HashSet `ids` is
\* iterated.
validate_workflow(spec, order) ==
    LET ids == {spec.nodes[i].id : i \in 1..Len(spec.nodes)}
    IN  IF ~validate_nodes(spec.nodes, 1, {}).ok THEN validate_nodes(spec.nodes, 1, {})
        ELSE IF ~validate_edges(spec.edges, 1, ids).ok THEN validate_edges(spec.edges, 1, ids)
        ELSE IF visit_each(order, graph(spec, ids), {}, {}).cycle THEN Err("Cycle", NONE)
        ELSE Ok

\* One call of validate_workflow; a HashSet is iterated in any order.
validate_workflow_call ==
    /\ call.fn = "validate_workflow"
    /\ LET ids == {call.arg.nodes[i].id : i \in 1..Len(call.arg.nodes)}
           Orders == {f \in [1..Cardinality(ids) -> ids] :
                        \A i, k \in 1..Cardinality(ids) : i # k => f[i] # f[k]}
       IN  \E order \in Orders : Return(validate_workflow(call.arg, order))

ValidateWorkflowSpec ==
    LibInit("validate_workflow", WorkflowSpecs) /\ [][validate_workflow_call]_vars

\* ------------------------------------------- the two validators on trial
MaxCommands == 2

\* Exec blocks: every workdir of ProjectPaths, both values of allow_shell, and
\* up to MaxCommands commands over a sample of program names, argument lists
\* and cwd values.
ExecBlocks ==
    LET Programs == {"echo", "bash", "BASH", "dash", "sudo", "dd", "chmod", "rm", "mv", "ln",
                     "mkfs.btrfs"}
        Args == { <<>>, <<Flag>>, <<Operand(Path(FALSE, <<"out">>))>>,
                  <<Operand(Path(TRUE, <<"etc">>))>>,
                  <<Flag, Operand(Path(FALSE, <<"..", "x">>))>>,
                  <<Operand(Path(FALSE, <<"out">>)), Operand(Path(TRUE, <<"etc">>))>> }
        Cwds == {NoCwd, Path(FALSE, <<"sub">>), Path(FALSE, <<"..">>)}
        Commands == [program : Programs, args : Args, cwd : Cwds]
    IN  UNION { [workdir : ProjectPaths, allow_shell : BOOLEAN, commands : [1..n -> Commands]]
                  : n \in 0..MaxCommands }

\* One call of validation.rs validate_exec_block.
validate_exec_block_call ==
    /\ call.fn = "validate_exec_block"
    /\ Return(validate_exec_block(call.arg))

\* safety.rs validate_command on one command.  within is what validate_workdir
\* finds on the file system; escapes is what validate_path_args finds there
\* for arguments that pass resolve_under.  resolve_under refuses an absolute
\* argument and one whose normal form leaves workdir.
safety_validate_command(command, allow_shell, within, escapes) ==
    LET prog == to_lowercase(command.program)
        targets == non_flag_args(command.args)
    IN  IF ~within THEN "workdir is outside workspace_root"
        ELSE IF prog \in {"sh", "bash", "zsh", "fish", "dash", "ksh", "pwsh", "powershell"}
                /\ ~allow_shell
          THEN "shell invocation is blocked by default"
        ELSE IF prog \in {"sudo", "doas", "shutdown", "reboot", "halt", "poweroff", "mkfs",
                          "mkfs.ext4", "mkfs.xfs", "fdisk", "parted", "wipefs", "dd", "mount",
                          "umount", "chown", "chmod"}
          THEN "command is not allowed by policy"
        ELSE IF prog \in {"rm", "rmdir", "mv", "cp"}
          THEN IF prog = "rm" /\ targets = <<>> THEN "'rm' with no target paths is not allowed"
               ELSE IF \E i \in 1..Len(targets) : ~is_safe_rel_path(targets[i])
                 THEN "path escapes working directory"
               ELSE IF targets # <<>> /\ escapes THEN "path resolves outside workspace_root"
               ELSE "ok"
        ELSE "ok"

\* orchestrator-agent run_job validates the commands of a job in order and
\* gives up at the first error: one call of safety.rs validate_command, on the
\* first command of the block, whose allow_shell is the command's own field.
safety_validate_command_call ==
    /\ call.fn = "validate_command"
    /\ Len(call.arg.commands) > 0
    /\ \E within, escapes \in BOOLEAN :
          Return(safety_validate_command(call.arg.commands[1], call.arg.allow_shell,
                                         within, escapes))

ValidatorSpec ==
    /\ LibInit("validate_exec_block", ExecBlocks) \/ LibInit("validate_command", ExecBlocks)
    /\ [][validate_exec_block_call \/ safety_validate_command_call]_vars

\* ------------------------------------------------------ the runners on trial
\* Three runners execute the commands of an exec block: agent/exec_runner.rs
\* run_local, orchestrator-agent/main.rs run_local and
\* orchestrator-agent/executor.rs run_job.  What the operating system does
\* with each command is the sequence `outcomes`, kept next to the result in
\* call.ret; a command is here [allow_failure, has_timeout], an index counts
\* from 1, and an Option is a sequence of length 0 or 1.
MaxRunCommands == 3

RECURSIVE exec_runner_run_local_never_halts(_, _, _, _, _)
exec_runner_run_local_never_halts(spec, outcomes, index, results, overall_ok) ==
    IF index > Len(spec.commands)
      THEN [status |-> IF overall_ok THEN "succeeded" ELSE "failed", commands |-> results]
    ELSE LET cmd_ok == outcomes[index] = "exit_zero"
             r == [index |-> index, status |-> IF cmd_ok THEN "succeeded" ELSE "failed",
                   exit_code |-> <<>>, error |-> <<>>]
         IN  exec_runner_run_local_never_halts(spec, outcomes, index + 1, Append(results, r),
                                               overall_ok /\ cmd_ok)

\* exec_runner.rs run_local, from command `index` on.  Every failure (spawn,
\* log file, wait, exit status) pushes a Failed result and breaks only if
\* halt_on_error.  A signal-killed child has no exit code.  timeout_sec is
\* not read: child.wait() is awaited to the end, so a child still running
\* when its timeout elapses (outcome "timed_out"; left alone it exits 0) is
\* recorded with the exit status it ends with.
RECURSIVE exec_runner_run_local(_, _, _, _, _)
exec_runner_run_local(spec, outcomes, index, results, overall_ok) ==
    IF index > Len(spec.commands)
      THEN [status |-> IF overall_ok THEN "succeeded" ELSE "failed", commands |-> results]
    ELSE LET o == outcomes[index]
             cmd_ok == o \in {"exit_zero", "timed_out"}
             r == [index |-> index,
                   status |-> IF cmd_ok THEN "succeeded" ELSE "failed",
                   exit_code |-> CASE o \in {"exit_zero", "timed_out"} -> <<0>>
                                   [] o = "exit_nonzero" -> <<1>>
                                   [] OTHER -> <<>>,
                   error |-> CASE o = "spawn_failed" -> <<"spawn failed">>
                               [] o = "log_file_error" -> <<"log file error">>
                               [] o = "wait_failed" -> <<"wait failed">>
                               [] OTHER -> <<>>]
         IN  IF ~cmd_ok /\ spec.halt_on_error
               THEN [status |-> "failed", commands |-> Append(results, r)]
             ELSE exec_runner_run_local(spec, outcomes, index + 1, Append(results, r),
                                        overall_ok /\ cmd_ok)

exec_runner_run_local_call ==
    /\ call.fn = "exec_runner::run_local"
    /\ \E outcomes \in [1..Len(call.arg.commands) ->
                          {"spawn_failed", "log_file_error", "wait_failed", "exit_zero",
                           "exit_nonzero", "killed", "timed_out"}] :
          /\ \A i \in 1..Len(outcomes) :
                outcomes[i] = "timed_out" => call.arg.commands[i].has_timeout
          /\ Return([result |-> exec_runner_run_local(call.arg, outcomes, 1, <<>>, TRUE),
                     outcomes |-> outcomes])

RECURSIVE agent_run_local_without_allow_failure(_, _, _, _, _)
agent_run_local_without_allow_failure(exec, outcomes, i, results, overall_ok) ==
    IF i > Len(exec.commands)
      THEN [ok |-> TRUE, status |-> IF overall_ok THEN "succeeded" ELSE "failed",
            commands |-> results]
    ELSE LET status == IF outcomes[i] = "exit_zero" THEN "succeeded" ELSE "failed"
             r == [index |-> i, status |-> status,
                   exit_code |-> IF outcomes[i] = "exit_zero" THEN <<0>> ELSE <<1>>]
         IN  IF status # "succeeded"
               THEN [ok |-> TRUE, status |-> "failed", commands |-> Append(results, r)]
             ELSE agent_run_local_without_allow_failure(exec, outcomes, i + 1,
                                                        Append(results, r), overall_ok)

\* main.rs run_local, from command i on.  A log file that cannot be created, a
\* spawn that fails and a wait that fails leave the function with `?`: Err,
\* no results.  It has no halt_on_error: the loop breaks as soon as
\* overall_ok is false.
RECURSIVE agent_run_local(_, _, _, _, _)
agent_run_local(exec, outcomes, i, results, overall_ok) ==
    IF i > Len(exec.commands)
      THEN [ok |-> TRUE, status |-> IF overall_ok THEN "succeeded" ELSE "failed",
            commands |-> results]
    ELSE LET o == outcomes[i]
             cmd == exec.commands[i]
             status == CASE o = "exit_zero" -> "succeeded"
                         [] o = "timed_out" -> "timed_out"
                         [] OTHER -> "failed"
             r == [index |-> i, status |-> status,
                   exit_code |-> CASE o = "exit_zero" -> <<0>>
                                   [] o = "exit_nonzero" -> <<1>>
                                   [] OTHER -> <<>>]
             ok2 == overall_ok /\ ~(status # "succeeded" /\ ~cmd.allow_failure)
         IN  IF o \in {"create_failed", "spawn_failed", "wait_failed"}
               THEN [ok |-> FALSE, status |-> "none", commands |-> <<>>]
             ELSE IF ~ok2
               THEN [ok |-> TRUE, status |-> "failed", commands |-> Append(results, r)]
             ELSE agent_run_local(exec, outcomes, i + 1, Append(results, r), ok2)

\* A command can time out only if it has timeout_secs.
agent_run_local_call ==
    /\ call.fn = "run_local"
    /\ \E outcomes \in [1..Len(call.arg.commands) ->
                          {"create_failed", "spawn_failed", "wait_failed", "exit_zero",
                           "exit_nonzero", "killed", "timed_out"}] :
          /\ \A i \in 1..Len(outcomes) :
                outcomes[i] = "timed_out" => call.arg.commands[i].has_timeout
          /\ Return([result |-> agent_run_local(call.arg, outcomes, 1, <<>>, TRUE),
                     outcomes |-> outcomes])

\* The command loop of executor.rs run_job, from command i on.  Its
\* CommandResult has an exit code and no status: 127 for a spawn that failed,
\* 1 for a wait that failed or a child without an exit code.
RECURSIVE executor_run_job(_, _, _, _, _)
executor_run_job(exec, outcomes, i, results, succeeded) ==
    IF i > Len(exec.commands)
      THEN [status |-> IF succeeded THEN "succeeded" ELSE "failed", commands |-> results]
    ELSE LET o == outcomes[i]
             code == CASE o = "spawn_failed" -> 127
                       [] o = "exit_zero" -> 0
                       [] OTHER -> 1
             r == [index |-> i, exit_code |-> code]
             ok2 == succeeded /\ o \notin {"spawn_failed", "wait_failed"}
                              /\ ~(code # 0 /\ ~exec.commands[i].allow_failure)
         IN  IF ~ok2 THEN [status |-> "failed", commands |-> Append(results, r)]
             ELSE executor_run_job(exec, outcomes, i + 1, Append(results, r), ok2)

\* run_job fails with no commands when the job has no exec, the workspace
\* cannot be prepared or the workdir is outside it.
executor_run_job_call ==
    /\ call.fn = "run_job"
    /\ \/ Return([result |-> [status |-> "failed", commands |-> <<>>],
                  outcomes |-> <<"no_workspace">>])
       \/ \E outcomes \in [1..Len(call.arg.commands) ->
                             {"spawn_failed", "wait_failed", "exit_zero", "exit_nonzero",
                              "killed"}] :
             Return([result |-> executor_run_job(call.arg, outcomes, 1, <<>>, TRUE),
                     outcomes |-> outcomes])

\* The exec blocks given to the runners: up to MaxRunCommands commands.
RunnerExecBlocks ==
    UNION { [halt_on_error : BOOLEAN,
             commands : [1..n -> [allow_failure : BOOLEAN, has_timeout : BOOLEAN]]]
              : n \in 0..MaxRunCommands }

RunnerSpec ==
    /\ \/ LibInit("exec_runner::run_local", RunnerExecBlocks)
       \/ LibInit("run_local", RunnerExecBlocks)
       \/ LibInit("run_job", RunnerExecBlocks)
    /\ [][exec_runner_run_local_call \/ agent_run_local_call \/ executor_run_job_call]_vars

\* --------------------------------------------- service.rs claim_job on a queue
\* claim_job of service.rs before a job table of several runs.  Run i has the
\* one job i, created at millisecond i.  A job is queued in a run that is
\* unowned (just enqueued) or owned (requeued by reconcile, or the job of the
\* next stage, while the owner lease lasts), or it is running for the owner of
\* its run with a lease that is alive or has expired and awaits reconcile.
\* The table is a backlog of up to MaxBacklog queued jobs in runs that one
\* agent owns, followed by up to MaxVaried jobs of every variety.
MaxBacklog == 10
MaxVaried == 3

QueueInit ==
    /\ impl = "queue"
    /\ call = NoCall
    /\ now = MaxBacklog + MaxVaried + 1
    /\ \E m \in 0..MaxBacklog, v \in 0..MaxVaried, o \in Agents :
          \E kind \in [(m + 1)..(m + v) ->
                         [owner : {NONE} \cup Agents, lease : {"queued"}]
                           \cup [owner : Agents, lease : {"alive", "expired"}]] :
             LET n == m + v
                 owner == [i \in 1..n |-> IF i <= m THEN o ELSE kind[i].owner]
                 lease == [i \in 1..n |-> IF i <= m THEN "queued" ELSE kind[i].lease]
             IN /\ run = [i \in 1..n |->
                            [status |-> "running", owner_agent |-> owner[i],
                             owner_lease_expires_at_ms |->
                                IF owner[i] = NONE THEN NoMs ELSE now + LeaseMs]]
                /\ job = [i \in 1..n |->
                            [stage_run_id |-> i, created_at_ms |-> i,
                             status |-> IF lease[i] = "queued" THEN "queued" ELSE "running",
                             lease_owner |-> IF lease[i] = "queued" THEN NONE ELSE owner[i],
                             lease_token |-> IF lease[i] = "queued" THEN NoToken ELSE i,
                             lease_expires_at_ms |->
                                CASE lease[i] = "queued" -> NoMs
                                  [] lease[i] = "alive" -> now + 1
                                  [] lease[i] = "expired" -> now - 1]]
                /\ stage_run = [i \in 1..n |->
                                  [status |-> IF lease[i] = "queued" THEN "pending"
                                              ELSE "running"]]
                /\ next_token = n + 1
    /\ sc = [a \in Agents |-> IdleTickClaim]
    /\ requires = {}
    /\ artifact = <<>>
    /\ h = [p \in Procs |-> IdleH]
    /\ clm = IdleClaim
    /\ rcn = IdleReconcile
    /\ held = [a \in Agents |-> <<>>]

\* The whole of claim_job, under claim_lock and with no other handler running:
\* the ClaimLimit oldest queued jobs, the first of them whose run is unowned
\* or owned by agent_id, and the three UPDATEs; Ok(None) when the candidates
\* are used up.  call keeps the answer.
queue_claim_job(agent_id) ==
    /\ impl = "queue"
    /\ ~call.done
    /\ LET Q == {j \in DOMAIN job : job[j].status = "queued"}
           jobs == {j \in Q : Cardinality({k \in Q : job[k].created_at_ms < job[j].created_at_ms})
                                < ClaimLimit}
           Compatible == {j \in jobs : run[j].owner_agent \in {NONE, agent_id}}
           candidate == CHOOSE j \in Compatible :
                           \A k \in Compatible : job[j].created_at_ms <= job[k].created_at_ms
       IN  IF Compatible = {}
             THEN /\ call' = [fn |-> "claim_job", arg |-> agent_id, done |-> TRUE, ret |-> <<>>]
                  /\ UNCHANGED <<job, run, stage_run, held, next_token>>
             ELSE /\ job' = [job EXCEPT ![candidate] =
                               [@ EXCEPT !.status = "running",
                                         !.lease_owner = agent_id,
                                         !.lease_token = fresh_uuid,
                                         !.lease_expires_at_ms = now + LeaseMs]]
                  /\ run' = [run EXCEPT ![candidate] =
                               [@ EXCEPT !.owner_agent = agent_id,
                                         !.owner_lease_expires_at_ms = now + (LeaseMs * 3)]]
                  /\ stage_run' = [stage_run EXCEPT ![job[candidate].stage_run_id].status =
                                                      "running"]
                  /\ held' = [held EXCEPT ![agent_id] = <<candidate, fresh_uuid>>]
                  /\ next_token' = next_token + 1
                  /\ call' = [fn |-> "claim_job", arg |-> agent_id, done |-> TRUE,
                              ret |-> <<candidate>>]
    /\ UNCHANGED <<impl, sc, now, requires, artifact, h, clm, rcn>>

QueueSpec == QueueInit /\ [][\E a \in Agents : queue_claim_job(a)]_vars

\* ===================================== orchestrator-agent (main.rs, run_job)
\* The agent process "a1": the claim loop of main, run_job and the heartbeat
\* task that run_job spawns for the job (rcn[j]: pc "none" before the spawn,
\* "loop" while the task runs, "stopped" after its break; stop is the value of
\* the watch channel; sent counts the HeartbeatRequests posted).  The daemon is
\* the job table with the conditional updates of db.rs.
MaxAgentJobs == 2
MaxBeats == 2

NoHeartbeatTask == [pc |-> "none", stop |-> FALSE, sent |-> 0]

AgentInit ==
    /\ impl = "agent"
    /\ call = NoCall
    /\ sc = [a \in Agents |-> IdleTickClaim]
    /\ now = 0
    /\ run = [status |-> "running", owner_agent |-> NONE, owner_lease_expires_at_ms |-> NoMs]
    /\ stage_run = <<>>
    /\ requires = {}
    /\ job = [j \in 1..MaxAgentJobs |->
                [stage_run_id |-> NONE, status |-> "queued", lease_owner |-> NONE,
                 lease_token |-> NoToken, lease_expires_at_ms |-> NoMs]]
    /\ artifact = <<>>
    /\ next_token = 1
    /\ h = [p \in Procs |-> IF p = "a1" THEN [IdleH EXCEPT !.pc = "claim"] ELSE IdleH]
    /\ clm = IdleClaim
    /\ rcn = [j \in 1..MaxAgentJobs |-> NoHeartbeatTask]
    /\ held = [a \in Agents |-> <<>>]

\* main: POST /v1/agent/claim answered with an assignment (the oldest queued
\* job, leased to the agent); with no assignment main sleeps and polls again.
agent_main_claim ==
    /\ impl = "agent"
    /\ h["a1"].pc = "claim"
    /\ \E j \in DOMAIN job :
          /\ job[j].status = "queued"
          /\ \A k \in DOMAIN job : job[k].status = "queued" => j <= k
          /\ job' = [job EXCEPT ![j].status = "running", ![j].lease_owner = "a1",
                                ![j].lease_token = next_token,
                                ![j].lease_expires_at_ms = now + lease_seconds]
          /\ held' = [held EXCEPT !["a1"] = <<j, next_token>>]
          /\ h' = [h EXCEPT !["a1"].pc = "start", !["a1"].job = j, !["a1"].token = next_token]
    /\ next_token' = next_token + 1
    /\ UNCHANGED <<call, impl, sc, now, run, stage_run, requires, artifact, clm, rcn>>

\* run_job up to the spawn of the heartbeat task: create_dir_all, validate_workdir,
\* validate_command and create_dir_all(tmp) each return early with `?` (ok =
\* FALSE); otherwise the watch channel is created with false and the task spawned.
run_job_start(ok) ==
    /\ impl = "agent"
    /\ h["a1"].pc = "start"
    /\ IF ok
         THEN /\ rcn' = [rcn EXCEPT ![h["a1"].job] = [pc |-> "loop", stop |-> FALSE, sent |-> 0]]
              /\ h' = [h EXCEPT !["a1"].pc = "run_local"]
         ELSE /\ h' = [h EXCEPT !["a1"].pc = "report"]
              /\ UNCHANGED rcn
    /\ UNCHANGED <<call, impl, sc, now, run, stage_run, requires, job, artifact, next_token, clm, held>>

\* One iteration of the heartbeat task of job j: break when *stop_rx.borrow()
\* is true (a dropped sender leaves the last value in place), otherwise post a
\* HeartbeatRequest, which the daemon answers with Db::renew_lease, and sleep.
hb_task(j) ==
    /\ impl = "agent"
    /\ rcn[j].pc = "loop"
    /\ IF rcn[j].stop
         THEN /\ rcn' = [rcn EXCEPT ![j].pc = "stopped"]
              /\ UNCHANGED job
         ELSE /\ rcn[j].sent < MaxBeats
              /\ rcn' = [rcn EXCEPT ![j].sent = @ + 1]
              /\ job' = IF renew_lease(j, "a1", job[j].lease_token) # <<>>
                          THEN [job EXCEPT ![j] = renew_lease(j, "a1", job[j].lease_token)[1]]
                          ELSE job
    /\ UNCHANGED <<call, impl, sc, now, run, stage_run, requires, artifact, next_token, h, clm, held>>

\* run_local(..).await? (or run_slurm): Err returns from run_job at once, which
\* drops stop_tx and hb_handle; dropping a JoinHandle detaches the task.  With
\* Ok the result is built and stop_tx.send(true) is called.
run_job_run_local(r) ==
    /\ impl = "agent"
    /\ h["a1"].pc = "run_local"
    /\ IF r = "error"
         THEN /\ h' = [h EXCEPT !["a1"].pc = "report"]
              /\ UNCHANGED rcn
         ELSE /\ h' = [h EXCEPT !["a1"].pc = "complete", !["a1"].res = r]
              /\ rcn' = [rcn EXCEPT ![h["a1"].job].stop = TRUE]
    /\ UNCHANGED <<call, impl, sc, now, run, stage_run, requires, job, artifact, next_token, clm, held>>

\* The daemon's answer to a CompleteRequest: Db::complete_job sets the state
\* where the lease matches.
agent_complete_job(j, token, st, delivered) ==
    IF delivered /\ job[j].lease_owner = "a1" /\ job[j].lease_token = token
      THEN [job EXCEPT ![j].status = st]
      ELSE job

\* hb_handle.await, then complete_job(..).await?: the request may fail
\* (delivered = FALSE), which returns Err from run_job.
run_job_complete(delivered) ==
    /\ impl = "agent"
    /\ h["a1"].pc = "complete"
    /\ rcn[h["a1"].job].pc = "stopped"
    /\ job' = agent_complete_job(h["a1"].job, h["a1"].token, h["a1"].res, delivered)
    /\ h' = [h EXCEPT !["a1"] = [IdleH EXCEPT !.pc = IF delivered THEN "claim" ELSE "report",
                                              !.job = h["a1"].job, !.token = h["a1"].token]]
    /\ held' = [held EXCEPT !["a1"] = IF delivered THEN <<>> ELSE @]
    /\ UNCHANGED <<call, impl, sc, now, run, stage_run, requires, artifact, next_token, clm, rcn>>

\* main after run_job returned Err: best-effort complete_job with status Failed
\* (`let _ =`), then the next round of the claim loop.
agent_main_report_failure(delivered) ==
    /\ impl = "agent"
    /\ h["a1"].pc = "report"
    /\ job' = agent_complete_job(h["a1"].job, h["a1"].token, "failed", delivered)
    /\ h' = [h EXCEPT !["a1"] = [IdleH EXCEPT !.pc = "claim"]]
    /\ held' = [held EXCEPT !["a1"] = <<>>]
    /\ UNCHANGED <<call, impl, sc, now, run, stage_run, requires, artifact, next_token, clm, rcn>>

agent_clock ==
    /\ impl = "agent"
    /\ now < MaxTime
    /\ now' = now + 1
    /\ UNCHANGED <<call, impl, sc, run, stage_run, requires, job, artifact, next_token, h, clm, rcn, held>>

AgentSpec ==
    /\ AgentInit
    /\ [][
        \/ agent_main_claim
        \/ \E ok \in BOOLEAN : run_job_start(ok)
        \/ \E j \in 1..MaxAgentJobs : hb_task(j)
        \/ \E r \in {"succeeded", "failed", "error"} : run_job_run_local(r)
        \/ \E delivered \in BOOLEAN : run_job_complete(delivered)
        \/ \E delivered \in BOOLEAN : agent_main_report_failure(delivered)
        \/ agent_clock
       ]_vars

\* =========================================== spl (storage, engine, runner)
\* The Storage trait with its two implementations (impl = "sqlite" is
\* SqliteStorage, impl = "memory" is InMemoryStorage), plan_next and
\* Runner::run_once.  job is the queue_items table, one record [task_id, lane,
\* visible_at, priority] per queue id; held is the leases table, held[q] being
\* <<>> or <<lease>> (at most one row per queue_id: leases.queue_id is unique);
\* stage_run holds the task statuses; h[w] is worker w's position in run_once.
MaxItems == 2
MaxSplTime == 3
VisibleLater == 1
SplTtl == 2

\* The steps of run_once between the lease and the task status.
RunSteps == <<"create_run", "create_workspace", "write_gates", "snapshot", "export_patch",
              "run_land">>


SplInit ==
    /\ impl \in {"sqlite", "memory"}
    /\ call = NoCall
    /\ sc = [a \in Agents |-> IdleTickClaim]
    /\ now = 0
    /\ run = [status |-> "none", owner_agent |-> NONE, owner_lease_expires_at_ms |-> NoMs]
    /\ stage_run = [t \in (1..MaxItems) |-> "ready"]
    /\ requires = {}
    /\ job \in [(1..MaxItems) -> [task_id : (1..MaxItems), lane : {"execute", "land"},
                             visible_at : {0, VisibleLater}, priority : {0, 1}]]
    /\ \A q \in (1..MaxItems) : job[q].task_id = q
    /\ job[1].lane = "execute"
    /\ job[1].priority = 0
    /\ artifact = <<>>
    /\ next_token = 1
    /\ h = [p \in Procs |-> IdleH]
    /\ clm = IdleClaim
    /\ rcn = IdleScheduler
    /\ held = [q \in (1..MaxItems) |-> <<>>]

\* Storage::load_snapshot(now_unix): the snapshots the call can return, queue
\* and leases only.  SqliteStorage selects FROM queue_items WHERE visible_at <=
\* ?1 in row order; InMemoryStorage returns every value of its HashMap, in the
\* map's iteration order, which is any order.
load_snapshot(now_unix) ==
    IF impl = "sqlite"
      THEN {[now_unix |-> now_unix,
             queue |-> SelectSeq([q \in (1..MaxItems) |-> q],
                                 LAMBDA q : job[q].visible_at <= now_unix),
             leases |-> held]}
      ELSE {[now_unix |-> now_unix, queue |-> s, leases |-> held] :
              s \in {t \in [(1..MaxItems) -> (1..MaxItems)] : \A q \in (1..MaxItems) : \E i \in (1..MaxItems) : t[i] = q}}

\* plan_next: the snapshot's queue sorted (stably) by priority descending, then
\* visible_at ascending; the first Execute item gives AcquireLease, <<>> is
\* vec![].  run_once selects its item with the same sort and find.
plan_next(snapshot) ==
    LET E == {i \in 1..Len(snapshot.queue) : job[snapshot.queue[i]].lane = "execute"}
        Before(i, k) ==
            LET a == job[snapshot.queue[i]]
                b == job[snapshot.queue[k]]
            IN  \/ a.priority > b.priority
                \/ a.priority = b.priority /\ a.visible_at < b.visible_at
                \/ a.priority = b.priority /\ a.visible_at = b.visible_at /\ i <= k
    IN  IF E = {} THEN <<>>
        ELSE <<snapshot.queue[CHOOSE i \in E : \A k \in E : Before(i, k)]>>

\* try_acquire_lease without the check of visible_at.
try_acquire_lease_ignoring_visible_at(queue_id, worker_id, ttl_secs) ==
    LET lease == [worker_id |-> worker_id, expires_at |-> now + ttl_secs]
        kept == [q \in (1..MaxItems) |->
                    IF held[q] # <<>> /\ held[q][1].expires_at <= now THEN <<>> ELSE held[q]]
    IN  IF (impl = "sqlite" /\ kept[queue_id] # <<>>) \/ (impl # "sqlite" /\ held[queue_id] # <<>>)
          THEN [leases |-> IF impl = "sqlite" THEN kept ELSE held, ret |-> <<>>]
          ELSE [leases |-> [(IF impl = "sqlite" THEN kept ELSE held) EXCEPT ![queue_id] = <<lease>>],
                ret |-> <<lease>>]

\* Storage::try_acquire_lease(queue_id, worker_id, ttl_secs) at time now: the
\* leases table after the call and the answer (<<>> for None, <<lease>> for
\* Some).  SqliteStorage deletes the expired leases, answers None when the item
\* is missing or not yet visible or when the INSERT hits the unique queue_id;
\* InMemoryStorage answers None when the map has a lease for the queue id and
\* inserts one otherwise.
try_acquire_lease(queue_id, worker_id, ttl_secs) ==
    LET lease == [worker_id |-> worker_id, expires_at |-> now + ttl_secs]
        kept == [q \in (1..MaxItems) |->
                    IF held[q] # <<>> /\ held[q][1].expires_at <= now THEN <<>> ELSE held[q]]
    IN  IF impl = "sqlite"
          THEN IF ~(queue_id \in (1..MaxItems) /\ job[queue_id].visible_at <= now)
                 THEN [leases |-> kept, ret |-> <<>>]
               ELSE IF kept[queue_id] # <<>>
                 THEN [leases |-> kept, ret |-> <<>>]
               ELSE [leases |-> [kept EXCEPT ![queue_id] = <<lease>>], ret |-> <<lease>>]
          ELSE IF held[queue_id] # <<>>
                 THEN [leases |-> held, ret |-> <<>>]
               ELSE [leases |-> [held EXCEPT ![queue_id] = <<lease>>], ret |-> <<lease>>]

\* Storage::release_lease: DELETE FROM leases WHERE queue_id = ?1 AND worker_id = ?2.
release_lease(queue_id, worker_id) ==
    IF held[queue_id] # <<>> /\ held[queue_id][1].worker_id = worker_id
      THEN [held EXCEPT ![queue_id] = <<>>]
      ELSE held

\* A client calls try_acquire_lease.
spl_try_acquire_lease(q, w) ==
    /\ impl \in {"sqlite", "memory"}
    /\ held' = try_acquire_lease(q, w, SplTtl).leases
    /\ UNCHANGED <<call, impl, sc, now, run, stage_run, requires, job, artifact, next_token, h, clm, rcn>>

\* A client calls release_lease.
spl_release_lease(q, w) ==
    /\ impl \in {"sqlite", "memory"}
    /\ held' = release_lease(q, w)
    /\ UNCHANGED <<call, impl, sc, now, run, stage_run, requires, job, artifact, next_token, h, clm, rcn>>

\* Runner::run_once(dry_run = false) of worker w up to the lease: load_snapshot,
\* the selection, try_acquire_lease(item, worker_id, 300).  "no visible execute
\* items" and "could not acquire lease" return Err with no lease taken.
run_once(w) ==
    /\ impl \in {"sqlite", "memory"}
    /\ h[w].pc \in {"idle", "returned"}
    /\ \E snapshot \in load_snapshot(now) :
          LET item == plan_next(snapshot)
              lease == try_acquire_lease(item[1], w, SplTtl)
          IN  IF item = <<>>
                THEN /\ h' = [h EXCEPT ![w] = [IdleH EXCEPT !.pc = "returned", !.res = "err"]]
                     /\ UNCHANGED held
              ELSE /\ held' = lease.leases
                   /\ h' = [h EXCEPT ![w] =
                              IF lease.ret = <<>>
                                THEN [IdleH EXCEPT !.pc = "returned", !.res = "err"]
                                ELSE [IdleH EXCEPT !.pc = "leased", !.job = item[1],
                                                   !.todo = RunSteps]]
    /\ UNCHANGED <<call, impl, sc, now, run, stage_run, requires, job, artifact, next_token, clm, rcn>>

\* The next step of run_once between the lease and the task status: each of
\* them ends in `?`, so a failing step (ok = FALSE) returns Err at once.
run_once_step(w, ok) ==
    /\ h[w].pc = "leased"
    /\ h[w].todo # <<>>
    /\ h' = [h EXCEPT ![w] = IF ok THEN [@ EXCEPT !.todo = Tail(@)]
                             ELSE [@ EXCEPT !.pc = "returned", !.res = "err"]]
    /\ UNCHANGED <<call, impl, sc, now, run, stage_run, requires, job, artifact, next_token, clm, rcn, held>>

\* The end of run_once: set_task_status(task, Done)?, release_lease(item,
\* worker_id)?, Ok(()).  Only SqliteStorage can answer Err to either call.
run_once_finish(w, status_ok, release_ok) ==
    /\ h[w].pc = "leased"
    /\ h[w].todo = <<>>
    /\ (status_ok /\ release_ok) \/ impl = "sqlite"
    /\ stage_run' = IF status_ok THEN [stage_run EXCEPT ![job[h[w].job].task_id] = "done"]
                    ELSE stage_run
    /\ held' = IF status_ok /\ release_ok THEN release_lease(h[w].job, w) ELSE held
    /\ h' = [h EXCEPT ![w].pc = "returned",
                      ![w].res = IF status_ok /\ release_ok THEN "ok" ELSE "err"]
    /\ UNCHANGED <<call, impl, sc, now, run, requires, job, artifact, next_token, clm, rcn>>

\* now_unix() advances.
spl_clock ==
    /\ impl \in {"sqlite", "memory"}
    /\ now < MaxSplTime
    /\ now' = now + 1
    /\ UNCHANGED <<call, impl, sc, run, stage_run, requires, job, artifact, next_token, h, clm, rcn, held>>

\* The Runner is worker "a1"; the other worker is a client of the storage only.
SplSpec ==
    /\ SplInit
    /\ [][
        \/ \E q \in (1..MaxItems), w \in Agents : spl_try_acquire_lease(q, w) \/ spl_release_lease(q, w)
        \/ run_once("a1")
        \/ \E ok \in BOOLEAN : run_once_step("a1", ok)
        \/ \E status_ok \in BOOLEAN, release_ok \in BOOLEAN :
              run_once_finish("a1", status_ok, release_ok)
        \/ spl_clock
       ]_vars

\* ----------------------------------------------------------- specification
Init == ServiceInit \/ StateInit

Next ==
    \/ Tick
    \/ \E path \in ProjectPaths : demo_enqueue(path)
    \/ \E p \in Procs : promote_unmet(p) \/ enqueue_job_check(p) \/ enqueue_job_create(p)
    \/ \E a \in Agents, st \in ResultStatuses : complete_fetch(a, st)
    \/ \E a \in Agents : agent_stop(a)
    \/ \E a \in Agents : complete_update_job(a) \/ complete_update_stage(a)
    \/ \E a \in Agents : enqueue_downstream(a) \/ skip_pop(a) \/ skip_update(a)
    \/ \E a \in Agents : run_fail_count(a) \/ run_set_failed(a)
                           \/ run_remaining(a) \/ run_set_succeeded(a)
    \/ \E a \in Agents : claim_select(a)
    \/ claim_check_owner \/ claim_update_job \/ claim_update_owner \/ claim_update_stage
    \/ reconcile_jobs \/ reconcile_runs
    \/ \E a \in Agents : state_claim_select(a) \/ state_claim_update(a)
                           \/ state_claim_select_stage(a) \/ state_claim_mark_stage(a)
    \/ \E a \in Agents, b \in Agents, st \in ResultStatuses : state_complete_select(a, b, st)
    \/ \E a \in Agents : state_complete_select_stage(a) \/ state_complete_update_job(a)
                           \/ state_complete_update_stage(a)

Spec == Init /\ [][Next]_vars

\* ================================================================== claims
\* No request handler and no background loop is between two of its statements.
Quiescent ==
    /\ \A p \in Procs : h[p].pc \in {"idle", "done"}
    /\ clm.pc = "idle"
    /\ rcn.pc = "idle"
    /\ \A a \in Agents : sc[a].pc = "idle"

\* Agent a was given a lease on job j and its token is the one in j's record.
LeaseMatches(a, j) ==
    /\ held[a] # <<>>
    /\ held[a][1] = j
    /\ job[j].status = "running"
    /\ job[j].lease_token = held[a][2]

\* Agent a was given a lease whose token is no longer the one in the job's record.
StaleLease(a) ==
    /\ held[a] # <<>>
    /\ job[held[a][1]].lease_token # held[a][2]

\* What a Complete carrying (agent a, job j, token t) is answered in this state.
CompleteAnswer(a, j, t) ==
    IF impl = "service" THEN complete_check(a, j, t) ELSE state_complete_check(j, t)

Expired(j) == job[j].status = "running" /\ job[j].lease_expires_at_ms < now

RunningJobs(s) == {j \in DOMAIN job : job[j].stage_run_id = s /\ job[j].status = "running"}

\* C1: a job is never granted to two agents at once: in every state at most one
\* agent holds a lease whose token matches the record of a running job, and that
\* agent is the lease_owner of the record (service.rs and state.rs alike).
C1_AtMostOneLeaseHolder ==
    \A j \in DOMAIN job : \A a, b \in Agents :
        LeaseMatches(a, j) /\ LeaseMatches(b, j) => a = b /\ job[j].lease_owner = a

\* C1 witness: two agents hold leases on the same job; the later grant matches
\* the record and the earlier one does not.
C1_Witness ==
    \E a, b \in Agents :
        /\ a # b
        /\ held[a] # <<>> /\ held[b] # <<>>
        /\ held[a][1] = held[b][1]
        /\ LeaseMatches(b, held[b][1])
        /\ ~LeaseMatches(a, held[a][1])

\* C2: in every state each stage run has at most one job that is queued or running.
C2_AtMostOneActiveJob ==
    \A s \in DOMAIN stage_run : active_jobs(s) <= 1

\* C3: for every edge from -> to of the workflow, whenever the stage run of `to`
\* has a queued or running job, or is itself running, the stage run of `from`
\* has succeeded.
C3_PredecessorsSucceededFirst ==
    (impl = "service" /\ DOMAIN stage_run # {}) =>
        \A i \in 1..Len(demo_workflow(EmptyPath).edges) :
            LET e == demo_workflow(EmptyPath).edges[i]
            IN  (active_jobs(e.to) > 0 \/ stage_run[e.to].status = "running")
                    => stage_run[e.from].status = "succeeded"

\* C4: a Complete changes the job record only while the (agent_id, lease_token)
\* it carries matches the lease in that record, whatever the reconciler and the
\* other agent did since the handler read it.
C4_MismatchedCompleteChangesNothing ==
    [][\A a \in Agents :
          complete_update_job(a) => owner_ok(h[a].job, a) /\ token_ok(h[a].job, h[a].token)]_vars

\* C5: Complete is idempotent: at the moment an accepted Complete returns, the
\* same message sent again is answered with success for an already completed
\* job, which leaves every record as it is.
C5_ReplayIsAlreadyCompleted ==
    [][\A a \in Agents :
          (h[a].pc # "idle" /\ h'[a].pc = "idle")
              => \E j \in DOMAIN job, t \in 1..next_token :
                    /\ j = h[a].job
                    /\ t = h[a].token
                    /\ CompleteAnswer(a, j, t)' \in {"already completed", "ok"}]_vars

C7_ReconcileRequeuesExactlyExpired ==
    /\ [][reconcile_jobs =>
            /\ DOMAIN job' = DOMAIN job
            /\ \A j \in DOMAIN job :
                  job'[j] = IF Expired(j)
                              THEN [job[j] EXCEPT !.status = "queued",
                                                  !.lease_owner = NONE,
                                                  !.lease_token = NoToken,
                                                  !.lease_expires_at_ms = NoMs]
                              ELSE job[j]]_vars
    /\ [][reconcile_runs => job' = job]_vars

\* C7 witness: the reconciler has just requeued a job whose stage run was running.
C7_Witness ==
    /\ rcn.pc = "runs"
    /\ \E j \in DOMAIN job :
          /\ job[j].status = "queued"
          /\ job[j].lease_owner = NONE
          /\ stage_run[job[j].stage_run_id].status = "running"

\* C8: whenever no handler is in the middle of its statements, a stage run is
\* running if and only if exactly one of its jobs is running.
C8_StageRunningIffOneRunningJob ==
    (impl = "service" /\ Quiescent) =>
        \A s \in DOMAIN stage_run :
            stage_run[s].status = "running" <=> Cardinality(RunningJobs(s)) = 1

\* C9: a Complete on a running job is accepted (its handler goes on to write)
\* only when both the caller is the record's lease_owner and the token it
\* carries is the record's lease_token.
C9_AcceptedOnlyWithOwnerAndToken ==
    [][\A a \in Agents :
          (h[a].pc = "idle" /\ h'[a].pc # "idle")
              => /\ job[h'[a].job].lease_owner = a
                 /\ job[h'[a].job].lease_token = h'[a].token]_vars

\* C10: whenever no handler is in the middle of its statements, if some stage
\* run of the run is failed or needs_human then the run is failed.
C10_RunFailedWhenStageFailed ==
    (impl = "service" /\ Quiescent) =>
        ((\E s \in DOMAIN stage_run : stage_run[s].status \in {"failed", "needs_human"})
            => run.status = "failed")

\* C11: in every state, if the run is succeeded then every stage run is
\* succeeded or skipped and at least one is succeeded; and a run that is failed
\* never becomes succeeded.
C11_SucceededRunHasOnlySucceededStages ==
    /\ [](run.status = "succeeded" =>
            /\ \A s \in DOMAIN stage_run : stage_run[s].status \in {"succeeded", "skipped"}
            /\ \E s \in DOMAIN stage_run : stage_run[s].status = "succeeded")
    /\ [][run.status = "failed" => run'.status # "succeeded"]_vars

\* The validator's outcome for the stage that handler p is about to promote.
PromotionOutcome(p) == validate_exec_block(stage_run[Head(h[p].todo)].config)

\* C12: when the validator returns Block at promotion, the stage run becomes
\* needs_human with the outcome (and its violations) recorded and no job is
\* created; a stage run with a recorded Block never has a job, and a stage run
\* that is needs_human stays needs_human.
C12_BlockedStageNeverGetsJob ==
    /\ [][\A p \in Procs :
            (enqueue_job_create(p) /\ PromotionOutcome(p).decision = "block")
                => /\ stage_run'[Head(h[p].todo)].status = "needs_human"
                   /\ stage_run'[Head(h[p].todo)].validation = PromotionOutcome(p)
                   /\ PromotionOutcome(p).violations # <<>>
                   /\ job' = job]_vars
    /\ [](\A s \in DOMAIN stage_run :
            stage_run[s].status = "needs_human"
                => \A j \in DOMAIN job : job[j].stage_run_id # s)
    /\ [][\A s \in DOMAIN stage_run :
            stage_run[s].status = "needs_human" => stage_run'[s].status = "needs_human"]_vars

\* C12 witness: a promotion has been blocked: the stage run is needs_human with
\* the violation recorded and the handler has returned.
C12_Witness ==
    /\ impl = "service"
    /\ Quiescent
    /\ \E s \in DOMAIN stage_run :
          /\ stage_run[s].status = "needs_human"
          /\ stage_run[s].validation.decision = "block"

\* The stages that depend, directly or through other stages, on stage a in the
\* workflow (edges from -> to: `to` requires `from`).
Successors(a) ==
    {demo_workflow(EmptyPath).edges[i].to :
        i \in {k \in 1..Len(demo_workflow(EmptyPath).edges) :
                  demo_workflow(EmptyPath).edges[k].from = a}}

Descendants(a) ==
    Successors(a) \cup UNION {Successors(b) : b \in Successors(a)}

\* C13: whenever no handler is in the middle of its statements, every
\* transitive descendant of a stage run that is failed, needs_human or skipped
\* has been set to skipped and has no job.
C13_DescendantsOfFailedAreSkipped ==
    (impl = "service" /\ Quiescent) =>
        \A a \in DOMAIN stage_run :
            stage_run[a].status \in {"failed", "needs_human", "skipped"}
                => \A d \in Descendants(a) :
                      /\ stage_run[d].status = "skipped"
                      /\ \A j \in DOMAIN job : job[j].stage_run_id # d

\* C14: the retry rule of state.rs.  A failed Complete on a stage run with
\* attempts_used = n and max_attempts = m leaves it pending with n+1 attempts if
\* n+1 < m and failed otherwise; attempts_used changes only in that step; and
\* attempts_used never exceeds max_attempts.
C14_RetryRule ==
    /\ [](impl = "state" =>
            \A s \in DOMAIN stage_run : stage_run[s].attempts_used <= stage_run[s].max_attempts)
    /\ [][impl = "state" =>
            \A s \in DOMAIN stage_run :
                stage_run'[s].attempts_used # stage_run[s].attempts_used
                    => \E a \in Agents :
                          /\ state_complete_update_stage(a)
                          /\ h[a].sr = s
                          /\ h[a].res = "failed"
                          /\ stage_run'[s].attempts_used = stage_run[s].attempts_used + 1
                          /\ stage_run'[s].status =
                                IF stage_run[s].attempts_used + 1 < stage_run[s].max_attempts
                                  THEN "pending" ELSE "failed"]_vars

\* The Heartbeat (agent a, job j, token t) names a running job and its lease.
HeartbeatMatches(a, j, t) ==
    /\ job[j].status = "running"
    /\ job[j].lease_owner = a
    /\ job[j].lease_token = t

\* C15: a Heartbeat(agent, job, token) answers ok with new_expires_ms = now +
\* lease exactly when the job is running and both the lease owner and the lease
\* token match, and then it sets the job's lease expiry to that value and
\* nothing else; in every other case it answers ok = false and changes nothing.
C15_HeartbeatRenewsOnlyMatchingLease ==
    /\ [](impl = "tick" =>
            \A a \in Agents, j \in DOMAIN job, t \in 1..next_token :
                HeartbeatResponse(renew_lease(j, a, t)) =
                    IF HeartbeatMatches(a, j, t)
                      THEN [ok |-> TRUE, new_expires_ms |-> now + lease_seconds]
                      ELSE [ok |-> FALSE, new_expires_ms |-> NoMs])
    /\ [][\A a \in Agents, j \in DOMAIN job, t \in 1..next_token :
            tick_heartbeat(a, j, t)
                => /\ job' = IF HeartbeatMatches(a, j, t)
                               THEN [job EXCEPT ![j].lease_expires_at_ms = now + lease_seconds]
                               ELSE job
                   /\ UNCHANGED <<run, stage_run, held>>]_vars

\* C15 witness: a heartbeat has extended the lease of a running job beyond the
\* expiry its claim gave it, while another job is terminal and keeps its lease.
C15_Witness ==
    /\ impl = "tick"
    /\ \E j \in DOMAIN job :
          /\ job[j].status = "running"
          /\ job[j].lease_expires_at_ms > job[j].started_ms + lease_seconds
    /\ \E j \in DOMAIN job :
          /\ job[j].status \in {"succeeded", "failed"}
          /\ job[j].lease_token # NoToken

\* Job j is running and its lease has not expired.
LiveLease(j) ==
    /\ job[j].status = "running"
    /\ job[j].lease_expires_at_ms # NoMs
    /\ job[j].lease_expires_at_ms >= now

C17_OwnerClearedOnTerminalOrExpiry ==
    /\ []((impl = "service" /\ Quiescent /\ run.status \in {"succeeded", "failed"})
            => run.owner_agent = NONE /\ run.owner_lease_expires_at_ms = NoMs)
    /\ [][(reconcile_runs /\ run.owner_lease_expires_at_ms # NoMs
                          /\ run.owner_lease_expires_at_ms < rcn.now)
            => run'.owner_agent = NONE /\ run'.owner_lease_expires_at_ms = NoMs]_vars

\* C18: whenever no handler is in the middle of its statements, each stage run
\* that is succeeded has exactly one job that is succeeded.
C18_SucceededStageHasOneSucceededJob ==
    (impl = "service" /\ Quiescent) =>
        \A s \in DOMAIN stage_run :
            stage_run[s].status = "succeeded"
                => Cardinality({j \in DOMAIN job : /\ job[j].stage_run_id = s
                                                   /\ job[j].status = "succeeded"}) = 1

\* Job j was claimed, its lease has expired, and the agent that held it has
\* stopped: no agent holds a lease on j and no request is in flight.
LostJob(j) ==
    /\ j \in DOMAIN job
    /\ Expired(j)
    /\ \A a \in Agents : held[a] = <<>> \/ held[a][1] # j
    /\ Quiescent

\* C19: a job whose agent stopped after the claim is, once its lease has
\* expired, eventually taken out of that state: it is requeued or claimed again
\* (running under an unexpired lease) or completed.
C19_LostJobIsEventuallyReclaimed ==
    \A j \in 1..3 : LostJob(j) ~> (j \in DOMAIN job /\ ~Expired(j))

\* C20: on the happy path, once the run is enqueued, eventually every stage run
\* is succeeded and the run is succeeded.
C20_HappyPathCompletes ==
    (run.status # "none") ~>
        (/\ run.status = "succeeded"
         /\ \A s \in DOMAIN stage_run : stage_run[s].status = "succeeded")

\* Stage s has two or more dependencies, all succeeded, whose recorded
\* output revisions are not all equal.
RevDiverged(s) ==
    /\ Len(stage_run[s].deps) > 1
    /\ \A i \in 1..Len(stage_run[s].deps) : stage_run[stage_run[s].deps[i]].status = "succeeded"
    /\ \E i, k \in 1..Len(stage_run[s].deps) :
          stage_run[stage_run[s].deps[i]].output_revision
             # stage_run[stage_run[s].deps[k]].output_revision

\* No scheduler tick and no request is in progress, and no job is waiting or
\* running.
RevAtRest ==
    /\ rcn.pc = "idle"
    /\ \A a \in Agents : h[a].pc = "idle" /\ held[a] = <<>>
    /\ \A j \in DOMAIN job : job[j].status \notin {"queued", "running"}
    /\ \A s \in DOMAIN stage_run : stage_run[s].status = "pending" => stage_run[s].job_id # NoId

\* A stage whose dependencies' revisions diverge has no job.
RevDivergedHasNoJob ==
    \A s \in DOMAIN stage_run :
        RevDiverged(s) => \A j \in DOMAIN job : job[j].stage_run_id # s

\* C21: in the revision-handoff daemon a stage with two or more dependencies,
\* all succeeded, whose output revisions are not all equal, never has a job, and
\* once the daemon is at rest the stage is blocked and the run is failed.
C21_DivergedJoinIsBlockedAndRunFailed ==
    /\ impl = "rev" => RevDivergedHasNoJob
    /\ (impl = "rev" /\ RevAtRest) =>
          \A s \in DOMAIN stage_run :
              RevDiverged(s) => stage_run[s].status = "blocked" /\ run.status = "failed"

\* C22: whenever the scheduler creates a job, the job's input_revision is the
\* run's base_revision if the stage has no dependency, and the output_revision
\* recorded by a succeeded job of its dependency if it has exactly one; and the
\* scheduler's update of the stage that follows records the input_revision the
\* job was created with.
C22_JobCreatedWithThreadedRevision ==
    [][/\ Len(job') > Len(job) =>
            LET j == Len(job')
                deps == stage_run[job'[j].stage_run_id].deps
            IN  /\ deps = <<>> => job'[j].input_revision = run.base_revision
                /\ Len(deps) = 1 =>
                      \E k \in DOMAIN job :
                          /\ job[k].stage_run_id = deps[1]
                          /\ job[k].status = "succeeded"
                          /\ job[k].output_revision = job'[j].input_revision
       /\ (rcn.pc = "stage_update" /\ rcn' # rcn) =>
            stage_run'[Head(rcn.todo)].input_revision = rcn.input_rev
      ]_vars

\* The edges the stage_run status may take.
StageRunEdges ==
    { <<"pending", "running">>, <<"pending", "needs_human">>, <<"pending", "skipped">>,
      <<"running", "succeeded">>, <<"running", "failed">>, <<"failed", "pending">> }

\* C23: in service.rs every change of a stage_run's status is one of
\* pending->running, pending->needs_human, pending->skipped, running->succeeded,
\* running->failed, failed->pending; succeeded, skipped and needs_human are
\* never left.
C23_StageRunStatusEdges ==
    [][impl = "service" =>
         \A s \in DOMAIN stage_run \cap DOMAIN stage_run' :
             \/ stage_run'[s].status = stage_run[s].status
             \/ <<stage_run[s].status, stage_run'[s].status>> \in StageRunEdges]_vars

\* The three conditions on a workflow, stated on the WorkflowSpec itself.
WfDistinct(spec) ==
    \A i, k \in 1..Len(spec.nodes) : i # k => spec.nodes[i].id # spec.nodes[k].id

WfEdgesExist(spec) ==
    \A i \in 1..Len(spec.edges) :
        /\ \E k \in 1..Len(spec.nodes) : spec.nodes[k].id = spec.edges[i].from
        /\ \E k \in 1..Len(spec.nodes) : spec.nodes[k].id = spec.edges[i].to

WfCyclic(spec) ==
    \E n \in 1..Len(spec.edges) :
        \E p \in [1..n -> 1..Len(spec.edges)] :
            /\ \A i \in 1..(n - 1) : spec.edges[p[i]].to = spec.edges[p[i + 1]].from
            /\ spec.edges[p[n]].to = spec.edges[p[1]].from

\* Every exec-block node has an exec, and every command of every exec passes
\* validate_command.
WfExecsValid(spec) ==
    \A i \in 1..Len(spec.nodes) :
        /\ spec.nodes[i].kind = "exec_block" => spec.nodes[i].exec # <<>>
        /\ spec.nodes[i].exec # <<>> =>
              \A c \in 1..Len(spec.nodes[i].exec[1].commands) :
                  wf_validate_command(spec.nodes[i].exec[1].commands[c],
                                      spec.nodes[i].exec[1].allow_shell).ok

ShellEntryPoints ==
    {"sh", "bash", "zsh", "fish", "dash", "ksh", "cmd", "cmd.exe", "powershell", "pwsh"}

IsShellCommand(cmd) == to_lowercase(cmd.program) \in ShellEntryPoints

\* C25: shell rule of validate_exec_block.  For every exec block with a
\* non-empty workdir and at least one command: if some command's lowercased
\* program is a shell entry point (sh, bash, zsh, fish, dash, ksh, cmd,
\* cmd.exe, powershell, pwsh) and allow_shell is false, the decision is block;
\* and with allow_shell true a block whose commands are all shell entry points
\* without a cwd is not blocked.
C25_ShellRule ==
    (call.fn = "validate_exec_block" /\ call.done
       /\ call.arg.workdir # EmptyPath /\ Len(call.arg.commands) > 0)
    => LET cmds == call.arg.commands
       IN  /\ (~call.arg.allow_shell /\ \E i \in 1..Len(cmds) : IsShellCommand(cmds[i]))
                => call.ret.decision = "block"
           /\ (call.arg.allow_shell
                 /\ \A i \in 1..Len(cmds) : IsShellCommand(cmds[i]) /\ cmds[i].cwd = NoCwd)
                => call.ret.decision # "block"

\* The hard-deny names; mkfs.ext4, mkfs.xfs and mkfs.btrfs stand for mkfs.*.
HardDenyPrograms ==
    {"sudo", "doas", "shutdown", "reboot", "halt", "poweroff", "mkfs", "mkfs.ext4", "mkfs.xfs",
     "mkfs.btrfs", "fdisk", "parted", "wipefs", "dd", "mount", "umount", "chown", "chmod"}

IsHardDenied(cmd) == to_lowercase(cmd.program) \in HardDenyPrograms

\* C26: hard-deny rule.  A command whose lowercased program is one of sudo,
\* doas, shutdown, reboot, halt, poweroff, mkfs, mkfs.*, fdisk, parted, wipefs,
\* dd, mount, umount, chown, chmod is blocked whatever its arguments and
\* whatever allow_shell is: validate_exec_block returns block for a block
\* (workdir non-empty) that holds such a command, and safety.rs
\* validate_command returns an error for such a command.
C26_HardDenyRule ==
    /\ (call.fn = "validate_exec_block" /\ call.done /\ call.arg.workdir # EmptyPath
          /\ \E i \in 1..Len(call.arg.commands) : IsHardDenied(call.arg.commands[i]))
       => call.ret.decision = "block"
    /\ (call.fn = "validate_command" /\ call.done /\ IsHardDenied(call.arg.commands[1]))
       => call.ret # "ok"

DestructivePathTools == {"rm", "rmdir", "unlink", "mv", "cp", "ln"}

\* Not a safe relative path: absolute, or with a parent-dir or root component.
UnsafePath(p) == p.abs \/ \E k \in 1..Len(p.comps) : p.comps[k] \in {"..", "/"}

HasUnsafeArg(cmd) == \E i \in 1..Len(cmd.args) : ~cmd.args[i].flag /\ UnsafePath(cmd.args[i])

RECURSIVE WarningsUpTo(_, _)
WarningsUpTo(blk, k) ==
    IF k = 0 THEN <<>>
    ELSE WarningsUpTo(blk, k - 1) \o validate_command(blk, blk.commands[k]).warnings

\* C28: decision combination.  The decision validate_exec_block returns is
\* block iff violations is non-empty, warn iff violations is empty and
\* warnings is not, allow iff both are empty; and the loop stops at the first
\* command that blocks: the outcome holds the violations of that command and
\* the warnings of the commands up to it, nothing of the commands after it.
C28_DecisionCombination ==
    (call.fn = "validate_exec_block" /\ call.done)
    => LET blk == call.arg
           out == call.ret
           B == {i \in 1..Len(blk.commands) :
                   validate_command(blk, blk.commands[i]).decision = "block"}
           first == CHOOSE i \in B : \A k \in B : i <= k
       IN  /\ out.decision = "block" <=> out.violations # <<>>
           /\ out.decision = "warn" <=> (out.violations = <<>> /\ out.warnings # <<>>)
           /\ out.decision = "allow" <=> (out.violations = <<>> /\ out.warnings = <<>>)
           /\ (blk.workdir # EmptyPath /\ B # {})
                => /\ out.violations = validate_command(blk, blk.commands[first]).violations
                   /\ out.warnings = WarningsUpTo(blk, first)
           /\ (blk.workdir # EmptyPath /\ B = {})
                => out.warnings = WarningsUpTo(blk, Len(blk.commands))

\* C28 witness: a block whose first command, dd, is blocked by policy and
\* whose second, mv, would add a warning has come back block with the one
\* violation.
C28_Witness ==
    /\ call.fn = "validate_exec_block" /\ call.done
    /\ Len(call.arg.commands) = 2
    /\ call.arg.commands[1].program = "dd"
    /\ call.arg.commands[2].program = "mv"
    /\ validate_command(call.arg, call.arg.commands[2]).warnings # <<>>
    /\ call.ret.decision = "block"
    /\ Len(call.ret.violations) = 1

\* C29: halt_on_error in exec_runner.rs run_local.  The recorded results are
\* those of the commands in declaration order.  With halt_on_error the results
\* end with the first failed command (all commands if none failed); without it
\* every command has a result; and the overall status is failed whenever some
\* recorded command failed.
C29_HaltOnError ==
    (call.fn = "exec_runner::run_local" /\ call.done)
    => LET res == call.ret.result.commands
           n == Len(call.arg.commands)
           F == {k \in 1..Len(res) : res[k].status = "failed"}
       IN  /\ Len(res) <= n
           /\ \A k \in 1..Len(res) : res[k].index = k
           /\ call.arg.halt_on_error => IF F = {} THEN Len(res) = n ELSE F = {Len(res)}
           /\ ~call.arg.halt_on_error => Len(res) = n
           /\ F # {} => call.ret.result.status = "failed"

\* C29 witness: of three commands under halt_on_error the first succeeded and
\* the second exited non-zero; two results are recorded.
C29_Witness ==
    /\ call.fn = "exec_runner::run_local" /\ call.done
    /\ call.arg.halt_on_error /\ Len(call.arg.commands) = 3
    /\ Len(call.ret.result.commands) = 2
    /\ call.ret.result.commands[1].status = "succeeded"
    /\ call.ret.result.commands[2].status = "failed"
    /\ call.ret.result.commands[2].exit_code = <<1>>
    /\ call.ret.result.status = "failed"

\* What a command that ran did: it exited, was killed by a signal, or was
\* killed at its timeout; all else is a failure to run it at all.
RanToAnEnd(outcomes) ==
    \A i \in 1..Len(outcomes) :
       outcomes[i] \in {"exit_zero", "exit_nonzero", "killed", "timed_out"}

C31_TimeoutEnforced ==
    (call.fn \in {"run_local", "exec_runner::run_local"} /\ call.done)
    => LET res == call.ret.result.commands
       IN  \A k \in 1..Len(res) :
              call.ret.outcomes[k] = "timed_out"
              => /\ res[k].status = "timed_out"
                 /\ res[k].exit_code = <<>>
                 /\ ~call.arg.commands[k].allow_failure => call.ret.result.status = "failed"

\* Job k is claimable for agent a at time t: queued, or running with a lease
\* that expired before t, in a run that is unowned or owned by a.
ClaimableFor(k, a, t) ==
    /\ \/ job[k].status = "queued"
       \/ /\ job[k].status = "running"
          /\ job[k].lease_expires_at_ms # NoMs
          /\ job[k].lease_expires_at_ms < t
    /\ run[k].owner_agent \in {NONE, a}

\* C33: claim_job serves the queue oldest-first.  When it has returned job j
\* to agent a, no job created earlier than j is left that is claimable for a.
C33_ClaimServesOldestFirst ==
    (call.fn = "claim_job" /\ call.done /\ call.ret # <<>>)
    => ~\E k \in DOMAIN job :
           /\ job[k].created_at_ms < job[call.ret[1]].created_at_ms
           /\ ClaimableFor(k, call.arg, now)

\* C38: claim_job returns no assignment only when nothing is claimable for the
\* caller.  If claim_job has answered agent a with no job, then no queued job
\* belongs to a run that is unowned or owned by a (an answer with a job
\* leaves the job table changed, an empty answer leaves it as it was).
C38_NoAssignmentOnlyWhenNothingClaimable ==
    (call.fn = "claim_job" /\ call.done /\ call.ret = <<>>)
    => ~\E k \in DOMAIN job :
           job[k].status = "queued" /\ run[k].owner_agent \in {NONE, call.arg}

\* One scheduler tick on the tables st and jb.
TickOnce(st, jb) ==
    schedule_run(SelectSeq(RevStages, LAMBDA s : st[s].status = "pending" /\ st[s].job_id = NoId),
                 st, st, jb)

\* C34: promotion is idempotent.  Whenever the scheduler may start a tick, a
\* second tick run right after the first, with no other event in between,
\* leaves the stages and the jobs as the first tick left them.
C34_PromoteIsIdempotent ==
    (/\ impl = "rev" /\ rcn.pc = "idle" /\ \A a \in Agents : h[a] = IdleH
     /\ run.status \notin {"succeeded", "failed"})
    => LET once == TickOnce(stage_run, job)
       IN  TickOnce(once.stages, once.jobs) = once

\* C36: terminal jobs are stable.  No step of any handler changes the status,
\* the result or the artifact of a job whose status is succeeded or failed.
C36_TerminalJobsAreStable ==
    [][\A j \in DOMAIN job :
          (j \in DOMAIN job' /\ job[j].status \in {"succeeded", "failed"})
              => \A f \in DOMAIN job[j] \cap {"status", "result", "artifact_id"} :
                    job'[j][f] = job[j][f]]_vars

\* A step keeps stage s: a succeeded or failed stage is not written back to
\* pending or running, and job_id is not emptied while s has a live job.
StageKept(s) ==
    /\ stage_run[s].status \in {"succeeded", "failed"}
          => stage_run'[s].status \notin {"pending", "running"}
    /\ (stage_run[s].job_id # NoId /\ stage_run'[s].job_id = NoId)
          => \A j \in DOMAIN job' :
                job'[j].stage_run_id = s => job'[j].status \notin {"queued", "running"}

\* C37: in the tick-based scheduler no interleaving of a scheduler tick with a
\* Claim and a Complete writes a succeeded or failed stage back to pending or
\* running, or empties the job_id of a stage that has a queued or running job.
C37_StageNotCorruptedByInterleaving ==
    [][\A s \in DOMAIN stage_run :
          (impl \in {"tick", "rev"} /\ s \in DOMAIN stage_run') => StageKept(s)]_vars

\* run_job is running for job j: from the spawn of the heartbeat task to the
\* return of run_job.
InRunJob(j) == h["a1"].job = j /\ h["a1"].pc \in {"run_local", "complete"}

\* C39: the heartbeat task lives exactly as long as the job.  A Heartbeat for
\* job j is sent only while run_job is running for j; after run_job returned,
\* on any path, none is sent.
C39_HeartbeatStopsWithRunJob ==
    [][\A j \in DOMAIN rcn :
          (impl = "agent" /\ j \in DOMAIN rcn' /\ rcn'[j].sent > rcn[j].sent) => InRunJob(j)]_vars

\* Queue item q has a lease that has not expired.
Unexpired(q) == held[q] # <<>> /\ held[q][1].expires_at > now

\* C32: queue-item leases are exclusive.  While a lease on q has not expired,
\* try_acquire_lease on q answers None to every worker; once the lease was
\* released or has expired, try_acquire_lease on the (visible) item answers
\* with a lease.
C32_LeaseIsExclusive ==
    impl \in {"sqlite", "memory"} =>
        \A q \in DOMAIN held, w \in Agents :
            /\ Unexpired(q) => try_acquire_lease(q, w, SplTtl).ret = <<>>
            /\ (~Unexpired(q) /\ job[q].visible_at <= now)
                  => try_acquire_lease(q, w, SplTtl).ret # <<>>

\* What backoff visibility asks of the storage in the current state: an item
\* whose visible_at is later than now is in no snapshot queue, is not selected
\* by plan_next and is not leased by try_acquire_lease; an item whose
\* visible_at has been reached, and which has no unexpired lease, is leased.
VisibilityRespected ==
    \A q \in DOMAIN job :
        /\ job[q].visible_at > now
              => /\ \A snapshot \in load_snapshot(now) :
                       /\ \A i \in 1..Len(snapshot.queue) : snapshot.queue[i] # q
                       /\ plan_next(snapshot) # <<q>>
                 /\ \A w \in Agents : try_acquire_lease(q, w, SplTtl).ret = <<>>
        /\ (job[q].visible_at <= now /\ ~Unexpired(q))
              => \A w \in Agents : try_acquire_lease(q, w, SplTtl).ret # <<>>

RunOnceReturns(w) == h[w].pc = "leased" /\ h'[w].pc = "returned"

\* After the step worker w holds the lease of its item.
StillLeased(w) == held'[h[w].job] # <<>> /\ held'[h[w].job][1].worker_id = w

\* The step marks the task of worker w's item Done.
MarksDone(w) ==
    stage_run'[job[h[w].job].task_id] = "done" /\ stage_run[job[h[w].job].task_id] # "done"

\* C40: run_once releases the lease it acquired on every exit path, and marks
\* the task Done only when every step succeeded.
C40_RunOnceAlwaysReleasesLease ==
    [][\A w \in Agents :
          RunOnceReturns(w) => (~StillLeased(w) /\ (MarksDone(w) => h'[w].res = "ok"))]_vars
====
